---- MODULE Spec2Model ----
(***************************************************************************)
(* Report query compiler of iot-query-probe: the entity registry           *)
(* (api/entities.py), the join path resolver, the filter, aggregation and  *)
(* time range compilers and the query assembler (api/query_builder.py).    *)
(*                                                                         *)
(* SQL text is a sequence of tokens (strings); a token sequence read with  *)
(* single blanks and line breaks between tokens is the text the code       *)
(* builds.  A placeholder is the token "$k".  Parameters are records       *)
(* [kind, items] so that every Python value has one shape.                 *)
(***************************************************************************)
EXTENDS Integers, Sequences, FiniteSets, TLC

VARIABLES
  registry,        \* ENTITIES: the registry the process was started with
  config,          \* the ReportConfig under construction / being compiled
  now,             \* datetime.utcnow(), in hours
  result,          \* outcome of the latest build_query(config) call
  first_result,    \* outcome of the first build_query call on this config
  pc,              \* "edit" while the configuration is composed, "built" after
  from_entity_id,  \* arguments and result of a _find_join_path call
  to_entity_id,
  join_path,
  condition,  \* a _build_filter_condition call: its filter, params and param_idx before and after, its text
  time_bounds,  \* the (start, end) pair the latest _calculate_time_range call returned
  preview_sql,  \* the text the latest generate_preview_sql call returned
  calls,  \* the frames of the build_query calls in flight, one per caller
  stack,  \* the frames of a _find_join_path call and of the calls it makes of itself
  cred_files,  \* CREDENTIALS_DIR: the creds_<hash>.json file of each email, or none
  tokens,  \* the JWT tokens auth_login has issued
  rate_limit_store,  \* _rate_limit_store: per client address, the timestamps of its admitted requests inside the window
  response,  \* what the latest operation of the auth server, the API or the dashboard answered
  ledger   \* history: the logins, logouts and admitted requests so far

vars == <<registry, config, now, result, first_result, pc,
          from_entity_id, to_entity_id, join_path,
          condition,
          time_bounds,
          preview_sql,
          calls,
          stack,
          cred_files,
          tokens,
          rate_limit_store,
          response,
          ledger>>

(***************************************************************************)
(* Python's None for string-typed optionals, and for Optional[Entity]      *)
(***************************************************************************)
None == "None"
NoEntity == [id |-> None, schema_name |-> None, table_name |-> None,
             fields |-> <<>>, relationships |-> <<>>]

Range(s) == {s[i] : i \in DOMAIN s}

\* EntityField(id, name) and EntityRelationship(target_entity, source_field,
\* target_field, join_type), the attributes the compiler reads
F(id, name) == [id |-> id, name |-> name]
R(target_entity, source_field, target_field, join_type) ==
  [target_entity |-> target_entity, source_field |-> source_field,
   target_field |-> target_field, join_type |-> join_type]

(***************************************************************************)
(* The registry of api/entities.py in its declared (dict) order.  Every    *)
(* entity and every relationship is kept; of the fields, the keys of the   *)
(* relationships and the ones the configurations below refer to.           *)
(***************************************************************************)
ENTITIES ==
  <<
    [id |-> "objects", schema_name |-> "raw_business_data", table_name |-> "objects",
     fields |-> << F("object_id", "object_id"), F("object_label", "object_label"),
                 F("device_id", "device_id"), F("group_id", "group_id"),
                 F("create_datetime", "create_datetime"), F("is_deleted", "is_deleted") >>,
     relationships |-> << R("devices", "device_id", "device_id", "left"),
                 R("groups", "group_id", "group_id", "left"),
                 R("vehicles", "object_id", "object_id", "left"),
                 R("employees", "object_id", "object_id", "left") >>],
    [id |-> "vehicles", schema_name |-> "raw_business_data", table_name |-> "vehicles",
     fields |-> << F("vehicle_id", "vehicle_id"), F("vehicle_label", "vehicle_label"),
                 F("max_speed", "max_speed"), F("object_id", "object_id"),
                 F("user_id", "user_id"),
                 F("record_added_at", "record_added_at") >>,
     relationships |-> << R("objects", "object_id", "object_id", "left"),
                 R("users", "user_id", "user_id", "left") >>],
    [id |-> "employees", schema_name |-> "raw_business_data", table_name |-> "employees",
     fields |-> << F("employee_id", "employee_id"), F("department_id", "department_id"),
                 F("object_id", "object_id") >>,
     relationships |-> << R("departments", "department_id", "department_id", "left"),
                 R("objects", "object_id", "object_id", "left") >>],
    [id |-> "departments", schema_name |-> "raw_business_data", table_name |-> "departments",
     fields |-> << F("department_id", "department_id"),
                 F("department_label", "department_label") >>,
     relationships |-> << R("employees", "department_id", "department_id", "left") >>],
    [id |-> "groups", schema_name |-> "raw_business_data", table_name |-> "groups",
     fields |-> << F("group_id", "group_id"), F("group_label", "group_label") >>,
     relationships |-> << R("objects", "group_id", "group_id", "left") >>],
    [id |-> "devices", schema_name |-> "raw_business_data", table_name |-> "devices",
     fields |-> << F("device_id", "device_id"), F("device_imei", "device_imei"),
                 F("created_at", "created_at") >>,
     relationships |-> << R("objects", "device_id", "device_id", "left"),
                 R("sensor_description", "device_id", "device_id", "left") >>],
    [id |-> "sensor_description", schema_name |-> "raw_business_data", table_name |-> "sensor_description",
     fields |-> << F("sensor_id", "sensor_id"), F("device_id", "device_id") >>,
     relationships |-> << R("devices", "device_id", "device_id", "inner") >>],
    [id |-> "tags", schema_name |-> "raw_business_data", table_name |-> "tags",
     fields |-> << F("tag_id", "tag_id"), F("tag_label", "tag_label"),
                 F("record_added_at", "record_added_at") >>,
     relationships |-> <<  >>],
    [id |-> "geofences", schema_name |-> "raw_business_data", table_name |-> "zones",
     fields |-> << F("zone_id", "zone_id"), F("zone_label", "zone_label") >>,
     relationships |-> <<  >>],
    [id |-> "pois", schema_name |-> "raw_business_data", table_name |-> "places",
     fields |-> << F("place_id", "place_id"), F("place_label", "place_label") >>,
     relationships |-> <<  >>],
    [id |-> "tracking_data_core", schema_name |-> "raw_telematics_data", table_name |-> "tracking_data_core",
     fields |-> << F("device_id", "device_id"), F("device_time", "device_time"),
                 F("speed", "speed") >>,
     relationships |-> << R("devices", "device_id", "device_id", "inner") >>],
    [id |-> "inputs", schema_name |-> "raw_telematics_data", table_name |-> "inputs",
     fields |-> << F("device_id", "device_id"), F("device_time", "device_time") >>,
     relationships |-> << R("devices", "device_id", "device_id", "inner") >>],
    [id |-> "states", schema_name |-> "raw_telematics_data", table_name |-> "states",
     fields |-> << F("device_id", "device_id"), F("device_time", "device_time") >>,
     relationships |-> << R("devices", "device_id", "device_id", "inner") >>]
  >>

\* The same registry with names a corrupted catalog could carry: a trailing
\* line break, punctuation, a leading digit, an empty name.
WithFieldName(fields, id, name) ==
  [i \in DOMAIN fields |-> IF fields[i].id = id THEN F(id, name) ELSE fields[i]]

TAINTED_ENTITIES ==
  [i \in DOMAIN ENTITIES |->
     LET e == ENTITIES[i] IN
     CASE e.id = "vehicles" ->
            [e EXCEPT !.fields = WithFieldName(e.fields, "vehicle_label", "vehicle_label\n")]
       [] e.id = "devices" ->
            [e EXCEPT !.fields = WithFieldName(e.fields, "device_imei", "device_imei;--")]
       [] e.id = "tags" -> [e EXCEPT !.table_name = "1tags"]
       [] e.id = "tracking_data_core" -> [e EXCEPT !.schema_name = ""]
       [] OTHER -> e]

\* ENTITIES.get(entity_id)
get_entity(reg, entity_id) ==
  IF \E i \in DOMAIN reg : reg[i].id = entity_id
  THEN reg[CHOOSE i \in DOMAIN reg : reg[i].id = entity_id]
  ELSE NoEntity

EntityIds(reg) == {reg[i].id : i \in DOMAIN reg}

\* next((f for f in entity.fields if f.id == field_id), None)
NoField == F(None, None)
find_field(entity, field_id) ==
  IF \E i \in DOMAIN entity.fields : entity.fields[i].id = field_id
  THEN entity.fields[CHOOSE i \in DOMAIN entity.fields :
                       /\ entity.fields[i].id = field_id
                       /\ \A j \in 1..(i-1) : entity.fields[j].id # field_id]
  ELSE NoField

(***************************************************************************)
(* Identifiers.  A Python str is a sequence of characters; Chars spells    *)
(* the names of the registries above.                                      *)
(***************************************************************************)
Chars(name) ==
  CASE name = "create_datetime" -> <<"c", "r", "e", "a", "t", "e", "_", "d", "a", "t", "e", "t", "i", "m", "e">>
    [] name = "created_at" -> <<"c", "r", "e", "a", "t", "e", "d", "_", "a", "t">>
    [] name = "department_id" -> <<"d", "e", "p", "a", "r", "t", "m", "e", "n", "t", "_", "i", "d">>
    [] name = "department_label" -> <<"d", "e", "p", "a", "r", "t", "m", "e", "n", "t", "_", "l", "a", "b", "e", "l">>
    [] name = "departments" -> <<"d", "e", "p", "a", "r", "t", "m", "e", "n", "t", "s">>
    [] name = "device_id" -> <<"d", "e", "v", "i", "c", "e", "_", "i", "d">>
    [] name = "device_imei" -> <<"d", "e", "v", "i", "c", "e", "_", "i", "m", "e", "i">>
    [] name = "device_time" -> <<"d", "e", "v", "i", "c", "e", "_", "t", "i", "m", "e">>
    [] name = "devices" -> <<"d", "e", "v", "i", "c", "e", "s">>
    [] name = "employee_id" -> <<"e", "m", "p", "l", "o", "y", "e", "e", "_", "i", "d">>
    [] name = "employees" -> <<"e", "m", "p", "l", "o", "y", "e", "e", "s">>
    [] name = "group_id" -> <<"g", "r", "o", "u", "p", "_", "i", "d">>
    [] name = "group_label" -> <<"g", "r", "o", "u", "p", "_", "l", "a", "b", "e", "l">>
    [] name = "groups" -> <<"g", "r", "o", "u", "p", "s">>
    [] name = "inputs" -> <<"i", "n", "p", "u", "t", "s">>
    [] name = "is_deleted" -> <<"i", "s", "_", "d", "e", "l", "e", "t", "e", "d">>
    [] name = "max_speed" -> <<"m", "a", "x", "_", "s", "p", "e", "e", "d">>
    [] name = "object_id" -> <<"o", "b", "j", "e", "c", "t", "_", "i", "d">>
    [] name = "object_label" -> <<"o", "b", "j", "e", "c", "t", "_", "l", "a", "b", "e", "l">>
    [] name = "objects" -> <<"o", "b", "j", "e", "c", "t", "s">>
    [] name = "place_id" -> <<"p", "l", "a", "c", "e", "_", "i", "d">>
    [] name = "place_label" -> <<"p", "l", "a", "c", "e", "_", "l", "a", "b", "e", "l">>
    [] name = "places" -> <<"p", "l", "a", "c", "e", "s">>
    [] name = "record_added_at" -> <<"r", "e", "c", "o", "r", "d", "_", "a", "d", "d", "e", "d", "_", "a", "t">>
    [] name = "raw_business_data" -> <<"r", "a", "w", "_", "b", "u", "s", "i", "n", "e", "s", "s", "_", "d", "a", "t", "a">>
    [] name = "raw_telematics_data" -> <<"r", "a", "w", "_", "t", "e", "l", "e", "m", "a", "t", "i", "c", "s", "_", "d", "a", "t", "a">>
    [] name = "sensor_description" -> <<"s", "e", "n", "s", "o", "r", "_", "d", "e", "s", "c", "r", "i", "p", "t", "i", "o", "n">>
    [] name = "sensor_id" -> <<"s", "e", "n", "s", "o", "r", "_", "i", "d">>
    [] name = "speed" -> <<"s", "p", "e", "e", "d">>
    [] name = "states" -> <<"s", "t", "a", "t", "e", "s">>
    [] name = "tag_id" -> <<"t", "a", "g", "_", "i", "d">>
    [] name = "tag_label" -> <<"t", "a", "g", "_", "l", "a", "b", "e", "l">>
    [] name = "tags" -> <<"t", "a", "g", "s">>
    [] name = "tracking_data_core" -> <<"t", "r", "a", "c", "k", "i", "n", "g", "_", "d", "a", "t", "a", "_", "c", "o", "r", "e">>
    [] name = "user_id" -> <<"u", "s", "e", "r", "_", "i", "d">>
    [] name = "vehicle_id" -> <<"v", "e", "h", "i", "c", "l", "e", "_", "i", "d">>
    [] name = "vehicle_label" -> <<"v", "e", "h", "i", "c", "l", "e", "_", "l", "a", "b", "e", "l">>
    [] name = "vehicles" -> <<"v", "e", "h", "i", "c", "l", "e", "s">>
    [] name = "zone_id" -> <<"z", "o", "n", "e", "_", "i", "d">>
    [] name = "zone_label" -> <<"z", "o", "n", "e", "_", "l", "a", "b", "e", "l">>
    [] name = "zones" -> <<"z", "o", "n", "e", "s">>
    [] name = "vehicle_label\n" -> <<"v", "e", "h", "i", "c", "l", "e", "_", "l", "a", "b", "e", "l", "\n">>
    [] name = "device_imei;--" -> <<"d", "e", "v", "i", "c", "e", "_", "i", "m", "e", "i", ";", "-", "-">>
    [] name = "1tags" -> <<"1", "t", "a", "g", "s">>
    [] name = "" -> <<>>

Letters == {"a","b","c","d","e","f","g","h","i","j","k","l","m",
            "n","o","p","q","r","s","t","u","v","w","x","y","z",
            "A","B","C","D","E","F","G","H","I","J","K","L","M",
            "N","O","P","Q","R","S","T","U","V","W","X","Y","Z"}
Digits == {"0","1","2","3","4","5","6","7","8","9"}

\* [a-zA-Z_] and [a-zA-Z0-9_]
IsHeadChar(c) == c \in Letters \cup {"_"}
IsWordChar(c) == c \in Letters \cup Digits \cup {"_"}

\* re.match(r'^[a-zA-Z_][a-zA-Z0-9_]*$', name): without re.MULTILINE, "$"
\* matches at the end of the string and also just before a line break that
\* ends the string.
ReMatchAnchoredEnd(cs) ==
  /\ Len(cs) >= 1
  /\ IsHeadChar(cs[1])
  /\ \E n \in 1..Len(cs) :
       /\ \A i \in 2..n : IsWordChar(cs[i])
       /\ \/ n = Len(cs)
          \/ n = Len(cs) - 1 /\ cs[Len(cs)] = "\n"

\* the names Chars spells: those of the registries
SpelledNames ==
  { "create_datetime", "created_at", "department_id", "department_label",
    "departments", "device_id", "device_imei", "device_time", "devices",
    "employee_id", "employees", "group_id", "group_label", "groups", "inputs",
    "is_deleted", "max_speed", "object_id", "object_label", "objects",
    "place_id", "place_label", "places", "record_added_at",
    "raw_business_data", "raw_telematics_data", "sensor_description",
    "sensor_id", "speed", "states", "tag_id", "tag_label", "tags",
    "tracking_data_core", "user_id", "vehicle_id", "vehicle_label",
    "vehicles", "zone_id", "zone_label", "zones", "vehicle_label\n",
    "device_imei;--", "1tags", "" }

\* the outcome of the match for each of these names, computed once
MatchOfName == [name \in SpelledNames |-> ReMatchAnchoredEnd(Chars(name))]

ReMatchIdentifier(name) ==
  IF name \in SpelledNames THEN MatchOfName[name]
  ELSE ReMatchAnchoredEnd(Chars(name))

\* _sanitize_identifier: raises ValueError (ok = FALSE) or returns name
_sanitize_identifier(name) ==
  [ok |-> ReMatchIdentifier(name), value |-> name]

\* What the docstring and the spec ask of an identifier: letters, digits and
\* underscore only, not empty, not starting with a digit.
StrictIdentifier(name) ==
  LET cs == Chars(name) IN
  /\ Len(cs) >= 1
  /\ IsHeadChar(cs[1])
  /\ \A i \in 1..Len(cs) : IsWordChar(cs[i])

(***************************************************************************)
(* Join Path Resolver                                                      *)
(***************************************************************************)
\* Optional[List[Tuple]]: found = FALSE is the return value None
NoPath == [found |-> FALSE, path |-> <<>>]
Path(steps) == [found |-> TRUE, path |-> steps]

\* (from_entity, to_entity, from_field, to_field, join_type)
Step(from_id, to_id, from_field, to_field, join_type) ==
  [from_entity |-> from_id, to_entity |-> to_id, from_field |-> from_field,
   to_field |-> to_field, join_type |-> join_type]

ForwardStep(from_id, rel) ==
  Step(from_id, rel.target_entity, rel.source_field, rel.target_field, rel.join_type)

\* a reverse step that keeps the fields as declared
ReverseStep_Unswapped(from_id, entity_id, rel) ==
  Step(from_id, entity_id, rel.source_field, rel.target_field, rel.join_type)

\* a relationship declared on entity_id towards from_id, walked backwards
ReverseStep(from_id, entity_id, rel) ==
  Step(from_id, entity_id, rel.target_field, rel.source_field, rel.join_type)

\* The pairs (entity, rel) the two reverse loops visit, in their order: for
\* entity_id, entity in ENTITIES.items(), skipping visited entities, for rel in
\* entity.relationships with rel.target_entity == from_entity_id.
RECURSIVE RelsTargeting(_, _, _)
RelsTargeting(rels, from_id, k) ==
  IF k > Len(rels) THEN <<>>
  ELSE (IF rels[k].target_entity = from_id THEN <<rels[k]>> ELSE <<>>)
       \o RelsTargeting(rels, from_id, k + 1)

RECURSIVE ReverseEdges(_, _, _, _)
ReverseEdges(reg, from_id, visited, i) ==
  IF i > Len(reg) THEN <<>>
  ELSE (IF reg[i].id \in visited THEN <<>>
        ELSE LET rs == RelsTargeting(reg[i].relationships, from_id, 1) IN
             [k \in DOMAIN rs |-> [entity_id |-> reg[i].id, rel |-> rs[k]]])
       \o ReverseEdges(reg, from_id, visited, i + 1)

\* lines 237-239: the first relationship of from_entity that targets to
DirectForward(from_entity, to_id) ==
  LET rels == from_entity.relationships
      hits == {k \in DOMAIN rels : rels[k].target_entity = to_id}
  IN IF hits = {} THEN NoPath
     ELSE LET k == CHOOSE k \in hits : \A j \in hits : k <= j IN
          Path(<<ForwardStep(from_entity.id, rels[k])>>)

\* lines 242-251: the first reverse edge whose owner is the target
DirectReverse(reg, from_id, to_id, visited) ==
  LET edges == ReverseEdges(reg, from_id, visited, 1)
      hits == {k \in DOMAIN edges : edges[k].entity_id = to_id}
  IN IF hits = {} THEN NoPath
     ELSE LET k == CHOOSE k \in hits : \A j \in hits : k <= j IN
          Path(<<ReverseStep(from_id, to_id, edges[k].rel)>>)

RECURSIVE _find_join_path(_, _, _, _)
RECURSIVE ForwardHops(_, _, _, _, _)
RECURSIVE ReverseHops(_, _, _, _, _, _)

\* the multi-hop path with the first hop put after the hops that follow it
ForwardHops_StepLast(reg, from_entity, to_id, visited, k) ==
  LET rels == from_entity.relationships IN
  IF k > Len(rels) THEN NoPath
  ELSE IF rels[k].target_entity \in visited
       THEN ForwardHops(reg, from_entity, to_id, visited, k + 1)
       ELSE LET sub_path == _find_join_path(reg, rels[k].target_entity, to_id, visited) IN
            IF sub_path.found
            THEN Path(sub_path.path \o <<ForwardStep(from_entity.id, rels[k])>>)
            ELSE ForwardHops(reg, from_entity, to_id, visited, k + 1)

\* lines 254-259: multi-hop through the declared relationships, from the k-th
ForwardHops(reg, from_entity, to_id, visited, k) ==
  LET rels == from_entity.relationships IN
  IF k > Len(rels) THEN NoPath
  ELSE IF rels[k].target_entity \in visited
       THEN ForwardHops(reg, from_entity, to_id, visited, k + 1)
       ELSE LET sub_path == _find_join_path(reg, rels[k].target_entity, to_id, visited) IN
            IF sub_path.found
            THEN Path(<<ForwardStep(from_entity.id, rels[k])>> \o sub_path.path)
            ELSE ForwardHops(reg, from_entity, to_id, visited, k + 1)

\* the resolver without its last loop: reverse edges are never followed further
ReverseHops_Skipped(reg, from_id, to_id, visited, edges, k) == NoPath

\* lines 262-269: multi-hop through the reverse edges, from the k-th
ReverseHops(reg, from_id, to_id, visited, edges, k) ==
  IF k > Len(edges) THEN NoPath
  ELSE LET sub_path == _find_join_path(reg, edges[k].entity_id, to_id, visited) IN
       IF sub_path.found
       THEN Path(<<ReverseStep(from_id, edges[k].entity_id, edges[k].rel)>> \o sub_path.path)
       ELSE ReverseHops(reg, from_id, to_id, visited, edges, k + 1)

\* the resolver looking for the direct reverse edge before the forward one
_find_join_path_ReverseFirst(reg, from_id, to_id, visited) ==
  IF from_id = to_id THEN Path(<<>>)
  ELSE IF from_id \in visited THEN NoPath
  ELSE LET visited1 == visited \cup {from_id}
           from_entity == get_entity(reg, from_id)
       IN
       IF from_entity = NoEntity THEN NoPath
       ELSE LET rev == DirectReverse(reg, from_id, to_id, visited1) IN
            IF rev.found THEN rev
            ELSE LET fwd == DirectForward(from_entity, to_id) IN
                 IF fwd.found THEN fwd
                 ELSE LET hop == ForwardHops(reg, from_entity, to_id, visited1, 1) IN
                      IF hop.found THEN hop
                      ELSE ReverseHops(reg, from_id, to_id, visited1,
                                       ReverseEdges(reg, from_id, visited1, 1), 1)

\* visited is the caller's set; every recursive call receives a copy of the
\* set with from_entity_id added (visited.copy() after visited.add).
_find_join_path(reg, from_id, to_id, visited) ==
  IF from_id = to_id THEN Path(<<>>)
  ELSE IF from_id \in visited THEN NoPath
  ELSE LET visited1 == visited \cup {from_id}
           from_entity == get_entity(reg, from_id)
       IN
       IF from_entity = NoEntity THEN NoPath
       ELSE LET fwd == DirectForward(from_entity, to_id) IN
            IF fwd.found THEN fwd
            ELSE LET rev == DirectReverse(reg, from_id, to_id, visited1) IN
                 IF rev.found THEN rev
                 ELSE LET hop == ForwardHops(reg, from_entity, to_id, visited1, 1) IN
                      IF hop.found THEN hop
                      ELSE ReverseHops(reg, from_id, to_id, visited1,
                                       ReverseEdges(reg, from_id, visited1, 1), 1)

(***************************************************************************)
(* Values.  A filter value or a bound parameter is [kind, items]: a str,   *)
(* an int or a bool carries its text in items[1], a list its elements,     *)
(* None nothing.                                                           *)
(***************************************************************************)
StrV(s) == [kind |-> "str", items |-> <<s>>]
IntV(s) == [kind |-> "int", items |-> <<s>>]
BoolV(s) == [kind |-> "bool", items |-> <<s>>]
ListV(xs) == [kind |-> "list", items |-> xs]
NoneV == [kind |-> "none", items |-> <<>>]

\* isinstance(value, list)
IsList(value) == value.kind = "list"

RECURSIVE JoinStr(_, _)
JoinStr(xs, sep) ==
  IF xs = <<>> THEN ""
  ELSE IF Len(xs) = 1 THEN xs[1]
  ELSE xs[1] \o sep \o JoinStr(Tail(xs), sep)

\* f'{value}': str(value)
PyStr(value) ==
  CASE value.kind = "none" -> "None"
    [] value.kind = "list" ->
         "[" \o JoinStr([i \in DOMAIN value.items |-> "'" \o value.items[i] \o "'"], ", ") \o "]"
    [] OTHER -> value.items[1]

\* sep.join(parts) on token sequences
RECURSIVE JoinTokens(_, _)
JoinTokens(parts, sep) ==
  IF parts = <<>> THEN <<>>
  ELSE IF Len(parts) = 1 THEN parts[1]
  ELSE parts[1] \o <<sep>> \o JoinTokens(Tail(parts), sep)

\* f"${idx}"
Placeholder(idx) == "$" \o ToString(idx)

(***************************************************************************)
(* Field references and the Aggregation Compiler                           *)
(***************************************************************************)
\* _get_qualified_field_name: ok = FALSE when _sanitize_identifier raises
_get_qualified_field_name(entity, field, table_alias) ==
  LET alias == _sanitize_identifier(table_alias)
      field_name == _sanitize_identifier(field.name)
  IN [ok |-> alias.ok /\ field_name.ok,
      text |-> <<alias.value, ".", field_name.value>>]

_get_field_alias(entity_id, field_id, aggregation) ==
  IF aggregation # None
  THEN aggregation \o "_" \o entity_id \o "_" \o field_id
  ELSE entity_id \o "_" \o field_id

AggregationType == {"count", "sum", "avg", "min", "max", "count_distinct"}

\* count_distinct that counts every value
_build_aggregation_NoDistinct(field_name, aggregation) ==
  CASE aggregation \in {"count", "count_distinct"} -> <<"COUNT", "(">> \o field_name \o <<")">>
    [] aggregation = "sum" -> <<"SUM", "(">> \o field_name \o <<")">>
    [] aggregation = "avg" -> <<"AVG", "(">> \o field_name \o <<")">>
    [] aggregation = "min" -> <<"MIN", "(">> \o field_name \o <<")">>
    [] aggregation = "max" -> <<"MAX", "(">> \o field_name \o <<")">>
    [] OTHER -> field_name

_build_aggregation(field_name, aggregation) ==
  CASE aggregation = "count" -> <<"COUNT", "(">> \o field_name \o <<")">>
    [] aggregation = "sum" -> <<"SUM", "(">> \o field_name \o <<")">>
    [] aggregation = "avg" -> <<"AVG", "(">> \o field_name \o <<")">>
    [] aggregation = "min" -> <<"MIN", "(">> \o field_name \o <<")">>
    [] aggregation = "max" -> <<"MAX", "(">> \o field_name \o <<")">>
    [] aggregation = "count_distinct" -> <<"COUNT", "(", "DISTINCT">> \o field_name \o <<")">>
    [] OTHER -> field_name

(***************************************************************************)
(* Filter Compiler                                                         *)
(***************************************************************************)
\* param(val) without "param_idx += 1": every placeholder carries the same index
param_Stale(params, param_idx, val) ==
  [params |-> Append(params, val),
   param_idx |-> param_idx,
   text |-> Placeholder(param_idx)]

\* the nested function param(val): appends val and returns "$idx"
param(params, param_idx, val) ==
  [params |-> Append(params, val),
   param_idx |-> param_idx + 1,
   text |-> Placeholder(param_idx)]

\* ", ".join(param(v) for v in value)
RECURSIVE ParamEach(_, _, _, _)
ParamEach(params, param_idx, items, k) ==
  IF k > Len(items) THEN [params |-> params, param_idx |-> param_idx, texts |-> <<>>]
  ELSE LET p == param(params, param_idx, StrV(items[k]))
           rest == ParamEach(p.params, p.param_idx, items, k + 1)
       IN [params |-> rest.params, param_idx |-> rest.param_idx,
           texts |-> <<p.text>> \o rest.texts]

Condition(text, params, param_idx) ==
  [ok |-> TRUE, text |-> text, params |-> params, param_idx |-> param_idx]

\* the predicate with the value written into the text as a quoted literal
OneParam_Inlined(field_name, op, params, param_idx, val) ==
  Condition(field_name \o op \o <<"'" \o PyStr(val) \o "'">>, params, param_idx)

\* predicate with one placeholder: f"{field_name} <op> {param(val)}"
OneParam(field_name, op, params, param_idx, val) ==
  LET p == param(params, param_idx, val) IN
  Condition(field_name \o op \o <<p.text>>, p.params, p.param_idx)

\* the list bound whole, as one parameter behind one placeholder
ListParam_Whole(field_name, op, params, param_idx, value) ==
  LET p == param(params, param_idx, value) IN
  Condition(field_name \o op \o <<"(", p.text, ")">>, p.params, p.param_idx)

ListParam(field_name, op, params, param_idx, value) ==
  LET ps == ParamEach(params, param_idx, value.items, 1)
      placeholders == JoinTokens([i \in DOMAIN ps.texts |-> <<ps.texts[i]>>], ",")
  IN Condition(field_name \o op \o <<"(">> \o placeholders \o <<")">>,
               ps.params, ps.param_idx)

FilterOperator ==
  {"equals", "not_equals", "contains", "not_contains", "starts_with", "ends_with",
   "greater_than", "greater_equal", "less_than", "less_equal", "between",
   "in", "not_in", "is_null", "is_not_null"}

_build_filter_condition(entity, field, table_alias, filter_, params, param_idx) ==
  LET qualified == _get_qualified_field_name(entity, field, table_alias)
      field_name == qualified.text
      op == filter_.operator
      value == filter_.value
  IN
  IF ~qualified.ok
  THEN [ok |-> FALSE, text |-> <<>>, params |-> params, param_idx |-> param_idx]
  ELSE
  CASE op = "is_null" -> Condition(field_name \o <<"IS", "NULL">>, params, param_idx)
    [] op = "is_not_null" -> Condition(field_name \o <<"IS", "NOT", "NULL">>, params, param_idx)
    [] op = "equals" -> OneParam(field_name, <<"=">>, params, param_idx, value)
    [] op = "not_equals" -> OneParam(field_name, <<"!=">>, params, param_idx, value)
    [] op = "contains" ->
         OneParam(field_name, <<"ILIKE">>, params, param_idx, StrV("%" \o PyStr(value) \o "%"))
    [] op = "not_contains" ->
         OneParam(field_name, <<"NOT", "ILIKE">>, params, param_idx,
                  StrV("%" \o PyStr(value) \o "%"))
    [] op = "starts_with" ->
         OneParam(field_name, <<"ILIKE">>, params, param_idx, StrV(PyStr(value) \o "%"))
    [] op = "ends_with" ->
         OneParam(field_name, <<"ILIKE">>, params, param_idx, StrV("%" \o PyStr(value)))
    [] op = "greater_than" -> OneParam(field_name, <<">">>, params, param_idx, value)
    [] op = "greater_equal" -> OneParam(field_name, <<">=">>, params, param_idx, value)
    [] op = "less_than" -> OneParam(field_name, <<"<">>, params, param_idx, value)
    [] op = "less_equal" -> OneParam(field_name, <<"<=">>, params, param_idx, value)
    [] op = "between" ->
         LET p1 == param(params, param_idx, value)
             p2 == param(p1.params, p1.param_idx, filter_.value2)
         IN Condition(field_name \o <<"BETWEEN", p1.text, "AND", p2.text>>,
                      p2.params, p2.param_idx)
    [] op = "in" ->
         IF IsList(value)
         THEN ListParam(field_name, <<"IN">>, params, param_idx, value)
         ELSE OneParam(field_name, <<"=">>, params, param_idx, value)
    [] op = "not_in" ->
         IF IsList(value)
         THEN ListParam(field_name, <<"NOT", "IN">>, params, param_idx, value)
         ELSE OneParam(field_name, <<"!=">>, params, param_idx, value)
    [] OTHER -> OneParam(field_name, <<"=">>, params, param_idx, value)

(***************************************************************************)
(* Time Range Resolver.  A datetime is a number of hours counted from      *)
(* 2024-01-01T00:00:00; a timedelta is a number of hours.                  *)
(***************************************************************************)
HoursPerDay == 24
DaysPerWeek == 7
DaysPerMonth == 30
DaysPerYear == 365
DefaultDeltaDays == 7

TimeRange(type, relative_value, relative_unit, start_date, end_date) ==
  [type |-> type, relative_value |-> relative_value, relative_unit |-> relative_unit,
   start_date |-> start_date, end_date |-> end_date]

\* config.time_range = None
NoTimeRange == TimeRange(None, 0, None, None, None)

\* "is not None" where the code tests the truth value
Truthy_NotNone(s) == s # None

\* truth value of an Optional[str]
Truthy(s) == s # None /\ s # ""

\* datetime.fromisoformat on the date strings of the model; ok = FALSE is
\* the ValueError of a string that is no ISO date
fromisoformat(s) ==
  CASE s = "2024-01-01" -> [ok |-> TRUE, t |-> 0]
    [] s = "2024-01-03T12:00:00" -> [ok |-> TRUE, t |-> 2 * HoursPerDay + 12]
    [] OTHER -> [ok |-> FALSE, t |-> 0]

\* datetime.isoformat(): the text of the datetime t
isoformat(t) == "2024-01-01T00:00:00 + " \o ToString(t) \o "h"

NoBound == [some |-> FALSE, t |-> 0]
Bound(t) == [some |-> TRUE, t |-> t]

\* a delta counted in days whatever the unit
RelativeDelta_Days(relative_value, relative_unit) == relative_value * HoursPerDay

\* delta_map.get(relative_unit or "days", timedelta(days=7)), with
\* relative_value or 0 (a relative_value of None is the number 0 here)
RelativeDelta(relative_value, relative_unit) ==
  LET unit == IF Truthy(relative_unit) THEN relative_unit ELSE "days" IN
  CASE unit = "hours" -> relative_value
    [] unit = "days" -> relative_value * HoursPerDay
    [] unit = "weeks" -> relative_value * DaysPerWeek * HoursPerDay
    [] unit = "months" -> relative_value * DaysPerMonth * HoursPerDay
    [] unit = "years" -> relative_value * DaysPerYear * HoursPerDay
    [] OTHER -> DefaultDeltaDays * HoursPerDay

\* every time range resolved against the clock, the absolute ones included
_calculate_time_range_Clocked(time_range, utcnow) ==
  LET delta == RelativeDelta(time_range.relative_value, time_range.relative_unit) IN
  [ok |-> TRUE, start |-> Bound(utcnow - delta), end |-> Bound(utcnow)]

\* utcnow is the value datetime.utcnow() returns during the call
_calculate_time_range(time_range, utcnow) ==
  IF time_range.type = "absolute"
  THEN LET start == IF Truthy(time_range.start_date)
                    THEN fromisoformat(time_range.start_date)
                    ELSE [ok |-> TRUE, t |-> 0]
           end == IF Truthy(time_range.end_date)
                  THEN fromisoformat(time_range.end_date)
                  ELSE [ok |-> TRUE, t |-> 0]
       IN [ok |-> start.ok /\ end.ok,
           start |-> IF Truthy(time_range.start_date) THEN Bound(start.t) ELSE NoBound,
           end |-> IF Truthy(time_range.end_date) THEN Bound(end.t) ELSE NoBound]
  ELSE LET delta == RelativeDelta(time_range.relative_value, time_range.relative_unit) IN
       [ok |-> TRUE, start |-> Bound(utcnow - delta), end |-> Bound(utcnow)]

(***************************************************************************)
(* Query Assembler                                                         *)
(***************************************************************************)
SelectedField(entity_id, field_id, aggregation) ==
  [entity_id |-> entity_id, field_id |-> field_id, alias |-> None,
   aggregation |-> aggregation]
FilterCondition(entity_id, field_id, operator, value, value2) ==
  [entity_id |-> entity_id, field_id |-> field_id, operator |-> operator,
   value |-> value, value2 |-> value2]
SortConfig(entity_id, field_id, direction) ==
  [entity_id |-> entity_id, field_id |-> field_id, direction |-> direction]

MaxLimit == 10000
DefaultLimit == 1000

\* ReportConfig with its defaults; group_by = None is the empty list (both
\* are false where the code tests config.group_by)
ReportConfig(primary_entity) ==
  [primary_entity |-> primary_entity, selected_fields |-> <<>>, filters |-> <<>>,
   sorting |-> <<>>, time_range |-> NoTimeRange, time_field |-> None,
   time_field_entity |-> None, group_by |-> <<>>, limit |-> DefaultLimit]

\* a raised ValueError, named by its message
Fail(error) == [ok |-> FALSE, error |-> error, sql |-> <<>>, params |-> <<>>]
Compiled(sql, params) == [ok |-> TRUE, error |-> "", sql |-> sql, params |-> params]

UnknownEntity == "Unknown entity"
NoValidFields == "No valid fields selected"
InvalidIdentifier == "Invalid identifier"
CannotJoin == "Cannot join entity"
InvalidIsoformat == "Invalid isoformat string"

\* lines 289-305: one collecting loop; refs are the selected fields, the
\* filters or the sort specs
RECURSIVE CollectEntities(_, _, _, _)
CollectEntities(reg, used_entities, refs, k) ==
  IF k > Len(refs) THEN used_entities
  ELSE LET id == refs[k].entity_id IN
       IF id \notin Range(used_entities) /\ get_entity(reg, id) # NoEntity
       THEN CollectEntities(reg, Append(used_entities, id), refs, k + 1)
       ELSE CollectEntities(reg, used_entities, refs, k + 1)

\* lines 288-305: the keys of used_entities in insertion order
UsedEntities(reg, cfg) ==
  LET u1 == CollectEntities(reg, <<cfg.primary_entity>>, cfg.selected_fields, 1)
      u2 == CollectEntities(reg, u1, cfg.filters, 1)
  IN CollectEntities(reg, u2, cfg.sorting, 1)

\* table_aliases[entity_id] (lines 308-311, 423-424)
TableAlias(reg, entity_id) == get_entity(reg, entity_id).table_name

\* entity = used_entities.get(ref.entity_id); field = next(...): the reference
\* is skipped (continue) unless both are found
Resolves(reg, used_entities, ref) ==
  /\ ref.entity_id \in Range(used_entities)
  /\ find_field(get_entity(reg, ref.entity_id), ref.field_id) # NoField

QualifiedRef(reg, ref) ==
  LET entity == get_entity(reg, ref.entity_id) IN
  _get_qualified_field_name(entity, find_field(entity, ref.field_id),
                            TableAlias(reg, ref.entity_id))

\* any(f.aggregation for f in config.selected_fields)
HasAggregation(cfg) ==
  \E i \in DOMAIN cfg.selected_fields : cfg.selected_fields[i].aggregation # None

\* GROUP BY derived from the selection: every non-aggregated field of an
\* aggregated selection
IsInGroupBy_Derived(cfg, sel_field) == HasAggregation(cfg)

\* lines 335-342
IsInGroupBy(cfg, sel_field) ==
  /\ HasAggregation(cfg)
  /\ cfg.group_by # <<>>
  /\ \E i \in DOMAIN cfg.group_by :
       /\ cfg.group_by[i].entity_id = sel_field.entity_id
       /\ cfg.group_by[i].field_id = sel_field.field_id

\* lines 318-344: select_parts and group_by_fields after the k-th selected field
RECURSIVE SelectLoop(_, _, _, _)
SelectLoop(reg, cfg, used_entities, k) ==
  IF k = 0 THEN [ok |-> TRUE, select_parts |-> <<>>, group_by_fields |-> <<>>]
  ELSE LET before == SelectLoop(reg, cfg, used_entities, k - 1)
           sel_field == cfg.selected_fields[k]
       IN
       IF ~before.ok \/ ~Resolves(reg, used_entities, sel_field) THEN before
       ELSE LET field_name == QualifiedRef(reg, sel_field)
                alias == _get_field_alias(sel_field.entity_id, sel_field.field_id,
                                          sel_field.aggregation)
                expr == IF sel_field.aggregation # None
                        THEN _build_aggregation(field_name.text, sel_field.aggregation)
                        ELSE field_name.text
                grouped == sel_field.aggregation = None /\ IsInGroupBy(cfg, sel_field)
            IN
            IF ~field_name.ok THEN [before EXCEPT !.ok = FALSE]
            ELSE [ok |-> TRUE,
                  select_parts |-> Append(before.select_parts, expr \o <<"AS", alias>>),
                  group_by_fields |->
                    IF grouped THEN Append(before.group_by_fields, field_name.text)
                    ELSE before.group_by_fields]

\* the test of line 346 left out
IsEmptySelection_Never(select_parts) == FALSE

\* line 346: if not select_parts
IsEmptySelection(select_parts) == select_parts = <<>>

\* line 385
JoinTypeSql(join_type) ==
  CASE join_type \in {"inner", "INNER"} -> "INNER"
    [] join_type \in {"left", "LEFT"} -> "LEFT"
    [] join_type \in {"right", "RIGHT"} -> "RIGHT"
    [] OTHER -> "LEFT"

\* lines 373-394: the JOIN clauses of one path, from its k-th step
RECURSIVE JoinPathClauses(_, _, _, _)
\* the clauses of a path without the check of joined_entities
JoinPathClauses_Rejoin(reg, acc, join_path_, k) ==
  IF k > Len(join_path_) \/ ~acc.ok THEN acc
  ELSE LET step == join_path_[k]
           to_entity == get_entity(reg, step.to_entity)
           from_entity == get_entity(reg, step.from_entity)
           clause == <<JoinTypeSql(step.join_type), "JOIN",
                       to_entity.schema_name, ".", to_entity.table_name, "ON",
                       from_entity.table_name, ".", step.from_field, "=",
                       to_entity.table_name, ".", step.to_field>>
       IN JoinPathClauses(
            reg,
            [acc EXCEPT !.join_clauses = Append(@, clause),
                        !.joined_entities = @ \cup {step.to_entity}],
            join_path_, k + 1)

JoinPathClauses(reg, acc, join_path_, k) ==
  IF k > Len(join_path_) \/ ~acc.ok THEN acc
  ELSE LET step == join_path_[k]
           to_entity == get_entity(reg, step.to_entity)
           from_entity == get_entity(reg, step.from_entity)
       IN
       IF \/ step.to_entity \in acc.joined_entities
          \/ to_entity = NoEntity
          \/ from_entity = NoEntity
       THEN JoinPathClauses(reg, acc, join_path_, k + 1)
       ELSE LET target_schema == _sanitize_identifier(to_entity.schema_name)
                target_table == _sanitize_identifier(to_entity.table_name)
                source_table == _sanitize_identifier(from_entity.table_name)
                source_field == _sanitize_identifier(step.from_field)
                target_field == _sanitize_identifier(step.to_field)
                clause == <<JoinTypeSql(step.join_type), "JOIN",
                            target_schema.value, ".", target_table.value, "ON",
                            source_table.value, ".", source_field.value, "=",
                            target_table.value, ".", target_field.value>>
            IN
            IF ~(target_schema.ok /\ target_table.ok /\ source_table.ok
                 /\ source_field.ok /\ target_field.ok)
            THEN [acc EXCEPT !.ok = FALSE, !.error = InvalidIdentifier]
            ELSE JoinPathClauses(
                   reg,
                   [acc EXCEPT !.join_clauses = Append(@, clause),
                               !.joined_entities = @ \cup {step.to_entity}],
                   join_path_, k + 1)

\* line 364: _find_join_path(config.primary_entity, entity_id), visited = None;
\* the paths between the entities of the two registries are computed once
Registries == {ENTITIES, TAINTED_ENTITIES}

JoinPathOf ==
  [reg \in Registries |->
     [from_id \in EntityIds(reg) |->
        [to_id \in EntityIds(reg) |-> _find_join_path(reg, from_id, to_id, {})]]]

FindJoinPath(reg, from_id, to_id) ==
  IF reg \in Registries /\ from_id \in EntityIds(reg) /\ to_id \in EntityIds(reg)
  THEN JoinPathOf[reg][from_id][to_id]
  ELSE _find_join_path(reg, from_id, to_id, {})

\* lines 357-394: the joins of the used entities, from the k-th
RECURSIVE JoinLoop(_, _, _, _, _)
JoinLoop(reg, cfg, used_entities, acc, k) ==
  IF k > Len(used_entities) \/ ~acc.ok THEN acc
  ELSE IF used_entities[k] = cfg.primary_entity
       THEN JoinLoop(reg, cfg, used_entities, acc, k + 1)
       ELSE LET found == FindJoinPath(reg, cfg.primary_entity, used_entities[k]) IN
            IF ~found.found
            THEN [acc EXCEPT !.ok = FALSE, !.error = CannotJoin]
            ELSE JoinLoop(reg, cfg, used_entities,
                          JoinPathClauses(reg, acc, found.path, 1), k + 1)

JoinClauses(reg, cfg, used_entities) ==
  JoinLoop(reg, cfg, used_entities,
           [ok |-> TRUE, error |-> "", join_clauses |-> <<>>,
            joined_entities |-> {cfg.primary_entity}], 1)

\* lines 399-410: where_conditions, params and param_idx after the k-th filter
RECURSIVE FilterLoop(_, _, _, _)
FilterLoop(reg, cfg, used_entities, k) ==
  IF k = 0 THEN [ok |-> TRUE, error |-> "", where_conditions |-> <<>>, params |-> <<>>,
                 param_idx |-> 1]
  ELSE LET before == FilterLoop(reg, cfg, used_entities, k - 1)
           filter_ == cfg.filters[k]
       IN
       IF ~before.ok \/ ~Resolves(reg, used_entities, filter_) THEN before
       ELSE LET entity == get_entity(reg, filter_.entity_id)
                cond == _build_filter_condition(
                          entity, find_field(entity, filter_.field_id),
                          TableAlias(reg, filter_.entity_id), filter_,
                          before.params, before.param_idx)
            IN
            IF ~cond.ok THEN [before EXCEPT !.ok = FALSE, !.error = InvalidIdentifier]
            ELSE [ok |-> TRUE, error |-> "",
                  where_conditions |-> Append(before.where_conditions, cond.text),
                  params |-> cond.params,
                  param_idx |-> cond.param_idx]

\* line 415
TimeEntityId(cfg) ==
  IF Truthy(cfg.time_field_entity) THEN cfg.time_field_entity
  ELSE cfg.primary_entity

\* lines 413-421: the time range filter applies
HasTimeScope(reg, cfg) ==
  /\ cfg.time_range # NoTimeRange
  /\ Truthy(cfg.time_field)
  /\ get_entity(reg, TimeEntityId(cfg)) # NoEntity
  /\ find_field(get_entity(reg, TimeEntityId(cfg)), cfg.time_field) # NoField

\* one bound predicate (lines 429-432, 434-437)
\* a bound predicate that leaves param_idx where it was
BoundCondition_SameIndex(acc, time_field_name, op, bound) ==
  IF ~bound.some THEN acc
  ELSE [acc EXCEPT !.params = Append(@, StrV(isoformat(bound.t))),
                   !.where_conditions =
                      Append(@, time_field_name \o <<op, Placeholder(acc.param_idx)>>)]

BoundCondition(acc, time_field_name, op, bound) ==
  IF ~bound.some THEN acc
  ELSE [acc EXCEPT !.params = Append(@, StrV(isoformat(bound.t))),
                   !.where_conditions =
                      Append(@, time_field_name \o <<op, Placeholder(acc.param_idx)>>),
                   !.param_idx = @ + 1]

\* lines 413-437, after the filters (acc is the state FilterLoop left)
TimeRangeFilter(reg, cfg, acc, utcnow) ==
  IF ~HasTimeScope(reg, cfg) THEN acc
  ELSE LET time_entity == get_entity(reg, TimeEntityId(cfg))
           time_field == find_field(time_entity, cfg.time_field)
           range == _calculate_time_range(cfg.time_range, utcnow)
           time_field_name == _get_qualified_field_name(
                                time_entity, time_field,
                                TableAlias(reg, TimeEntityId(cfg)))
       IN
       IF ~range.ok THEN [acc EXCEPT !.ok = FALSE, !.error = InvalidIsoformat]
       ELSE IF ~time_field_name.ok
            THEN [acc EXCEPT !.ok = FALSE, !.error = InvalidIdentifier]
            ELSE BoundCondition(
                   BoundCondition(acc, time_field_name.text, ">=", range.start),
                   time_field_name.text, "<=", range.end)

\* sort.direction.lower() == "desc"
\* str.lower() on the direction strings of the model
Lower(direction) ==
  CASE direction \in {"desc", "DESC", "Desc", "dEsC"} -> "desc"
    [] direction \in {"asc", "ASC"} -> "asc"
    [] OTHER -> direction

Direction(direction) ==
  IF Lower(direction) = "desc" THEN "DESC" ELSE "ASC"

\* lines 441-453: order_parts after the k-th sort spec
RECURSIVE OrderLoop(_, _, _, _)
OrderLoop(reg, cfg, used_entities, k) ==
  IF k = 0 THEN [ok |-> TRUE, order_parts |-> <<>>]
  ELSE LET before == OrderLoop(reg, cfg, used_entities, k - 1)
           sort == cfg.sorting[k]
       IN
       IF ~before.ok \/ ~Resolves(reg, used_entities, sort) THEN before
       ELSE LET field_name == QualifiedRef(reg, sort) IN
            IF ~field_name.ok THEN [before EXCEPT !.ok = FALSE]
            ELSE [ok |-> TRUE,
                  order_parts |->
                    Append(before.order_parts,
                           field_name.text \o <<Direction(sort.direction)>>)]

RECURSIVE Flatten(_)
Flatten(parts) == IF parts = <<>> THEN <<>> ELSE Head(parts) \o Flatten(Tail(parts))

Min(a, b) == IF a <= b THEN a ELSE b

\* the requested limit written as it is
LimitClause_Unclamped(limit) == <<"LIMIT", ToString(limit)>>

\* line 471
LimitClause(limit) == <<"LIMIT", ToString(Min(limit, MaxLimit))>>

\* the clauses assembled with ORDER BY put before WHERE
Assemble_OrderByFirst(select_parts, from_clause, joins, wheres, group_by_fields, order_parts, limit) ==
  <<"SELECT">> \o JoinTokens(select_parts, ",")
  \o <<"FROM">> \o from_clause
  \o Flatten(joins)
  \o (IF order_parts # <<>>
      THEN <<"ORDER BY">> \o JoinTokens(order_parts, ",") ELSE <<>>)
  \o (IF wheres # <<>> THEN <<"WHERE">> \o JoinTokens(wheres, "AND") ELSE <<>>)
  \o (IF group_by_fields # <<>>
      THEN <<"GROUP BY">> \o JoinTokens(group_by_fields, ",") ELSE <<>>)
  \o LimitClause(limit)

\* lines 456-473
Assemble(select_parts, from_clause, joins, wheres, group_by_fields, order_parts, limit) ==
  <<"SELECT">> \o JoinTokens(select_parts, ",")
  \o <<"FROM">> \o from_clause
  \o Flatten(joins)
  \o (IF wheres # <<>> THEN <<"WHERE">> \o JoinTokens(wheres, "AND") ELSE <<>>)
  \o (IF group_by_fields # <<>>
      THEN <<"GROUP BY">> \o JoinTokens(group_by_fields, ",") ELSE <<>>)
  \o (IF order_parts # <<>>
      THEN <<"ORDER BY">> \o JoinTokens(order_parts, ",") ELSE <<>>)
  \o LimitClause(limit)

\* build_query(config) against the registry reg, with datetime.utcnow()
\* returning utcnow during the call
build_query(reg, cfg, utcnow) ==
  LET primary_entity == get_entity(reg, cfg.primary_entity) IN
  IF primary_entity = NoEntity THEN Fail(UnknownEntity)
  ELSE
  LET used_entities == UsedEntities(reg, cfg)
      selected == SelectLoop(reg, cfg, used_entities, Len(cfg.selected_fields))
  IN
  IF ~selected.ok THEN Fail(InvalidIdentifier)
  ELSE IF IsEmptySelection(selected.select_parts) THEN Fail(NoValidFields)
  ELSE
  LET schema_name == _sanitize_identifier(primary_entity.schema_name)
      table_name == _sanitize_identifier(primary_entity.table_name)
  IN
  IF ~(schema_name.ok /\ table_name.ok) THEN Fail(InvalidIdentifier)
  ELSE
  LET joins == JoinClauses(reg, cfg, used_entities) IN
  IF ~joins.ok THEN Fail(joins.error)
  ELSE
  LET filtered == FilterLoop(reg, cfg, used_entities, Len(cfg.filters)) IN
  IF ~filtered.ok THEN Fail(filtered.error)
  ELSE
  LET timed == TimeRangeFilter(reg, cfg, filtered, utcnow) IN
  IF ~timed.ok THEN Fail(timed.error)
  ELSE
  LET ordered == OrderLoop(reg, cfg, used_entities, Len(cfg.sorting)) IN
  IF ~ordered.ok THEN Fail(InvalidIdentifier)
  ELSE Compiled(
         Assemble(selected.select_parts,
                  <<schema_name.value, ".", table_name.value>>,
                  joins.join_clauses, timed.where_conditions,
                  selected.group_by_fields, ordered.order_parts, cfg.limit),
         timed.params)

(***************************************************************************)
(* The compiler in use: a configuration is composed from the menus below   *)
(* (pc = "edit"), then compiled; the clock moves and the same              *)
(* configuration is compiled again.                                        *)
(***************************************************************************)
MaxItems == 3
MaxTicks == 1
NowStart == 20000

Primaries == {"vehicles", "devices", "unknown_entity"}

SelectedMenu ==
  { SelectedField("vehicles", "vehicle_label", None),
    SelectedField("vehicles", "max_speed", "max"),
    SelectedField("objects", "object_label", None),
    SelectedField("devices", "device_imei", None),
    SelectedField("tracking_data_core", "speed", None),
    SelectedField("tags", "tag_label", None),
    SelectedField("vehicles", "unknown_field", None),
    SelectedField("unknown_entity", "vehicle_label", None) }

FilterMenu ==
  { FilterCondition("vehicles", "vehicle_label", "contains", StrV("a"), NoneV),
    FilterCondition("vehicles", "max_speed", "between", IntV("1"), IntV("2")),
    FilterCondition("objects", "is_deleted", "equals", BoolV("False"), NoneV),
    FilterCondition("devices", "device_id", "in", ListV(<<"a", "b">>), NoneV),
    FilterCondition("objects", "object_label", "is_null", NoneV, NoneV),
    FilterCondition("tags", "tag_label", "not_in", StrV("a"), NoneV),
    FilterCondition("vehicles", "unknown_field", "equals", StrV("a"), NoneV),
    FilterCondition("unknown_entity", "vehicle_label", "is_not_null", NoneV, NoneV) }

SortMenu ==
  { SortConfig("vehicles", "vehicle_label", "asc"),
    SortConfig("devices", "device_imei", "DESC"),
    SortConfig("vehicles", "unknown_field", "asc") }

TimeScope(time_range, time_field, time_field_entity) ==
  [time_range |-> time_range, time_field |-> time_field,
   time_field_entity |-> time_field_entity]

TimeScopeMenu ==
  { TimeScope(TimeRange("relative", 7, "days", None, None), "record_added_at", None),
    TimeScope(TimeRange("relative", 2, "months", None, None), "create_datetime", "objects"),
    TimeScope(TimeRange("relative", 3, "fortnights", None, None), "tag_label", "tags"),
    TimeScope(TimeRange("absolute", 0, None, "2024-01-01", ""),
              "device_time", "tracking_data_core"),
    TimeScope(TimeRange("absolute", 0, None, "2024-01-01", "2024-01-03T12:00:00"),
              "created_at", None),
    TimeScope(TimeRange("absolute", 0, None, "yesterday", None), "record_added_at", None),
    TimeScope(TimeRange("relative", 7, "days", None, None), "unknown_field", None),
    TimeScope(TimeRange("relative", 7, "days", None, None), None, None) }

HasTimeScopeSet(c) == c.time_range # NoTimeRange \/ c.time_field # None

Size(c) ==
  Len(c.selected_fields) + Len(c.filters) + Len(c.sorting)
  + (IF HasTimeScopeSet(c) THEN 1 ELSE 0)

NotBuilt == Fail("")

Init ==
  /\ registry \in Registries
  /\ \E p \in Primaries : config = ReportConfig(p)
  /\ now = NowStart
  /\ result = NotBuilt
  /\ first_result = NotBuilt
  /\ ledger = None
  /\ response = None
  /\ rate_limit_store = None
  /\ tokens = None
  /\ cred_files = None
  /\ stack = None
  /\ calls = None
  /\ preview_sql = None
  /\ time_bounds = None
  /\ condition = None
  /\ pc = "edit"
  /\ from_entity_id = None
  /\ to_entity_id = None
  /\ join_path = NoPath

Editing == pc = "edit" /\ Size(config) < MaxItems

AddSelectedField ==
  /\ Editing
  /\ \E f \in SelectedMenu :
       config' = [config EXCEPT !.selected_fields = Append(@, f)]
  /\ UNCHANGED <<registry, now, result, first_result, pc,
                 from_entity_id, to_entity_id, join_path,
                 condition,
                 time_bounds,
                 preview_sql,
                 calls,
                 stack,
                 cred_files,
                 tokens,
                 rate_limit_store,
                 response,
                 ledger>>

AddFilter ==
  /\ Editing
  /\ \E f \in FilterMenu : config' = [config EXCEPT !.filters = Append(@, f)]
  /\ UNCHANGED <<registry, now, result, first_result, pc,
                 from_entity_id, to_entity_id, join_path,
                 condition,
                 time_bounds,
                 preview_sql,
                 calls,
                 stack,
                 cred_files,
                 tokens,
                 rate_limit_store,
                 response,
                 ledger>>

AddSort ==
  /\ Editing
  /\ \E s \in SortMenu : config' = [config EXCEPT !.sorting = Append(@, s)]
  /\ UNCHANGED <<registry, now, result, first_result, pc,
                 from_entity_id, to_entity_id, join_path,
                 condition,
                 time_bounds,
                 preview_sql,
                 calls,
                 stack,
                 cred_files,
                 tokens,
                 rate_limit_store,
                 response,
                 ledger>>

SetTimeScope ==
  /\ Editing
  /\ ~HasTimeScopeSet(config)
  /\ \E t \in TimeScopeMenu :
       config' = [config EXCEPT !.time_range = t.time_range,
                                !.time_field = t.time_field,
                                !.time_field_entity = t.time_field_entity]
  /\ UNCHANGED <<registry, now, result, first_result, pc,
                 from_entity_id, to_entity_id, join_path,
                 condition,
                 time_bounds,
                 preview_sql,
                 calls,
                 stack,
                 cred_files,
                 tokens,
                 rate_limit_store,
                 response,
                 ledger>>

\* a call build_query(config) at the time now
BuildQuery ==
  /\ pc \in {"edit", "built"}
  /\ result' = build_query(registry, config, now)
  /\ first_result' = IF pc = "edit" THEN result' ELSE first_result
  /\ pc' = "built"
  /\ UNCHANGED <<registry, config, now, from_entity_id, to_entity_id, join_path,
                 condition,
                 time_bounds,
                 preview_sql,
                 calls,
                 stack,
                 cred_files,
                 tokens,
                 rate_limit_store,
                 response,
                 ledger>>

\* time passes between two calls
Tick ==
  /\ pc \in {"built", "time", "concurrent"}
  /\ now < NowStart + MaxTicks
  /\ now' = now + 1
  /\ UNCHANGED <<registry, config, result, first_result, pc,
                 from_entity_id, to_entity_id, join_path,
                 condition,
                 time_bounds,
                 preview_sql,
                 calls,
                 stack,
                 cred_files,
                 tokens,
                 rate_limit_store,
                 response,
                 ledger>>

Next ==
  \/ AddSelectedField
  \/ AddFilter
  \/ AddSort
  \/ SetTimeScope
  \/ BuildQuery
  \/ Tick

Spec == Init /\ [][Next]_vars

(***************************************************************************)
(* The Query Assembler with every knob of a configuration: the explicit    *)
(* group-by list and the requested limit besides the selected fields,      *)
(* filters, sort specs and time scope.  A whole configuration is drawn     *)
(* against the shipped registry, then compiled.                            *)
(***************************************************************************)
\* config.selected_fields
SelectedChoices ==
  { <<>>,
    <<SelectedField("vehicles", "vehicle_label", None)>>,
    <<SelectedField("vehicles", "max_speed", "max")>>,
    <<SelectedField("vehicles", "max_speed", "max"),
      SelectedField("vehicles", "vehicle_label", None)>>,
    <<SelectedField("vehicles", "max_speed", "max"),
      SelectedField("vehicles", "vehicle_label", None),
      SelectedField("objects", "object_label", None)>>,
    <<SelectedField("vehicles", "vehicle_label", None),
      SelectedField("devices", "device_imei", None)>>,
    <<SelectedField("vehicles", "unknown_field", "count"),
      SelectedField("objects", "object_label", None)>> }

\* config.filters
FilterChoices ==
  { <<>>,
    <<FilterCondition("vehicles", "vehicle_label", "contains", StrV("a"), NoneV)>>,
    <<FilterCondition("objects", "object_label", "is_null", NoneV, NoneV),
      FilterCondition("devices", "device_id", "in", ListV(<<"a", "b">>), NoneV)>>,
    <<FilterCondition("vehicles", "unknown_field", "equals", StrV("a"), NoneV)>> }

\* config.sorting
SortChoices ==
  { <<>>,
    <<SortConfig("vehicles", "vehicle_label", "asc")>>,
    <<SortConfig("devices", "device_imei", "DESC"),
      SortConfig("vehicles", "vehicle_label", "asc")>>,
    <<SortConfig("vehicles", "unknown_field", "asc")>> }

\* config.time_range, time_field, time_field_entity
TimeScopeChoices ==
  { TimeScope(NoTimeRange, None, None),
    TimeScope(TimeRange("relative", 7, "days", None, None), "record_added_at", "vehicles"),
    TimeScope(TimeRange("absolute", 0, None, "2024-01-01", ""), "created_at", "devices"),
    TimeScope(TimeRange("absolute", 0, None, None, None), "record_added_at", "vehicles") }

\* config.group_by
GroupByChoices ==
  { <<>>,
    <<SelectedField("vehicles", "vehicle_label", None)>>,
    <<SelectedField("vehicles", "vehicle_id", None),
      SelectedField("vehicles", "vehicle_label", None)>>,
    <<SelectedField("objects", "object_label", None),
      SelectedField("vehicles", "max_speed", None)>> }

\* config.limit
LimitChoices == {-1, 0, 5, DefaultLimit, MaxLimit - 1, MaxLimit, MaxLimit + 1, 999999}

InitClauses ==
  /\ registry = ENTITIES
  /\ \E p \in {"vehicles", "devices"} :
     \E s \in SelectedChoices : \E f \in FilterChoices : \E o \in SortChoices :
     \E t \in TimeScopeChoices : \E g \in GroupByChoices : \E l \in LimitChoices :
       config = [ReportConfig(p) EXCEPT
                   !.selected_fields = s, !.filters = f, !.sorting = o,
                   !.time_range = t.time_range, !.time_field = t.time_field,
                   !.time_field_entity = t.time_field_entity,
                   !.group_by = g, !.limit = l]
  /\ now = NowStart
  /\ result = NotBuilt
  /\ first_result = NotBuilt
  /\ ledger = None
  /\ response = None
  /\ rate_limit_store = None
  /\ tokens = None
  /\ cred_files = None
  /\ stack = None
  /\ calls = None
  /\ preview_sql = None
  /\ time_bounds = None
  /\ condition = None
  /\ pc = "edit"
  /\ from_entity_id = None
  /\ to_entity_id = None
  /\ join_path = NoPath

NextClauses == BuildQuery

SpecClauses == InitClauses /\ [][NextClauses]_vars

(***************************************************************************)
(* The Filter Compiler on its own: a caller holding params and param_idx   *)
(* calls _build_filter_condition for one filter after the other, as the    *)
(* loop of lines 399-410 does.                                             *)
(***************************************************************************)
MaxCalls == 2

\* filter_.value
OperandMenu == {StrV("a"), NoneV, ListV(<<>>), ListV(<<"a", "b">>)}

\* the caller's param_idx before the first call
FirstIndexMenu == {1, 4}

FilterCall(calls_, filter_, params_before, param_idx_before, cond) ==
  [calls |-> calls_, filter_ |-> filter_,
   params_before |-> params_before, param_idx_before |-> param_idx_before,
   text |-> cond.text, params |-> cond.params, param_idx |-> cond.param_idx]

InitFilter ==
  /\ registry = ENTITIES
  /\ config = ReportConfig("vehicles")
  /\ now = NowStart
  /\ result = NotBuilt
  /\ first_result = NotBuilt
  /\ ledger = None
  /\ response = None
  /\ rate_limit_store = None
  /\ tokens = None
  /\ cred_files = None
  /\ stack = None
  /\ calls = None
  /\ preview_sql = None
  /\ time_bounds = None
  /\ \E i \in FirstIndexMenu :
       condition = FilterCall(0, None, <<>>, i, Condition(<<>>, <<>>, i))
  /\ pc = "filter"
  /\ from_entity_id = None
  /\ to_entity_id = None
  /\ join_path = NoPath

\* one call _build_filter_condition(entity, field, table_alias, filter_,
\* params, param_idx) with the caller's params and param_idx
BuildFilterCondition ==
  /\ pc = "filter"
  /\ condition.calls < MaxCalls
  /\ \E operator \in FilterOperator, value \in OperandMenu :
       LET filter_ == FilterCondition("vehicles", "vehicle_label", operator, value, IntV("2"))
           entity == get_entity(registry, filter_.entity_id)
           cond == _build_filter_condition(
                     entity, find_field(entity, filter_.field_id),
                     TableAlias(registry, filter_.entity_id), filter_,
                     condition.params, condition.param_idx)
       IN condition' = FilterCall(condition.calls + 1, filter_,
                                  condition.params, condition.param_idx, cond)
  /\ UNCHANGED <<registry, config, now, result, first_result, pc,
                 from_entity_id, to_entity_id, join_path,
                 time_bounds,
                 preview_sql,
                 calls,
                 stack,
                 cred_files,
                 tokens,
                 rate_limit_store,
                 response,
                 ledger>>

NextFilter == BuildFilterCondition

SpecFilter == InitFilter /\ [][NextFilter]_vars

(***************************************************************************)
(* generate_preview_sql.  The text is the sequence of the tokens of the    *)
(* query text, each token a sequence of symbols: a placeholder or a string *)
(* holding a "$" is spelled character by character, any other token or     *)
(* string holds no "$" and is one symbol.  The tokens are set apart by      *)
(* blanks, brackets and commas, which no f"${i}" holds, so that replacing   *)
(* in the text is replacing in each token.                                  *)
(***************************************************************************)
\* the decimal digits of a positive number
RECURSIVE DecimalDigits(_)
DecimalDigits(n) ==
  IF n < 10 THEN <<ToString(n)>> ELSE DecimalDigits(n \div 10) \o <<ToString(n % 10)>>

\* f"${i}", character by character
PlaceholderChars(i) == <<"$">> \o DecimalDigits(i)

\* the characters of a string value
StrChars(s) ==
  CASE s = "$2" -> <<"$", "2">>
    [] s = "$11" -> <<"$", "1", "1">>
    [] OTHER -> <<s>>

\* the query text of build_query, placeholders spelled out
SqlChars(sql) ==
  LET placeholders == {Placeholder(k) : k \in 1..Len(sql)}
      IndexOf(token) == CHOOSE k \in 1..Len(sql) : Placeholder(k) = token
  IN [i \in DOMAIN sql |->
        IF sql[i] \in placeholders THEN PlaceholderChars(IndexOf(sql[i]))
        ELSE <<sql[i]>>]

\* every occurrence of old in the characters of one token, left to right
RECURSIVE ReplaceInToken(_, _, _)
ReplaceInToken(chars, old, new) ==
  IF Len(chars) < Len(old) THEN chars
  ELSE IF SubSeq(chars, 1, Len(old)) = old
       THEN new \o ReplaceInToken(SubSeq(chars, Len(old) + 1, Len(chars)), old, new)
       ELSE <<Head(chars)>> \o ReplaceInToken(Tail(chars), old, new)

\* str.replace(old, new)
StrReplace(text, old, new) ==
  [i \in DOMAIN text |-> ReplaceInToken(text[i], old, new)]

\* f"'{param}'" for a str, str(param) for any other parameter
ParamText(p) ==
  IF p.kind = "str" THEN <<"'">> \o StrChars(p.items[1]) \o <<"'">>
  ELSE <<PyStr(p)>>

\* the loop of lines 485-489 from parameter i on
RECURSIVE ReplaceLoop(_, _, _)
ReplaceLoop(preview, params, i) ==
  IF i > Len(params) THEN preview
  ELSE ReplaceLoop(StrReplace(preview, PlaceholderChars(i), ParamText(params[i])),
                   params, i + 1)

Preview(ok, text) == [ok |-> ok, text |-> text]
NoPreview == Preview(FALSE, <<>>)

\* lines 483-490 for the (sql, params) that build_query returned at line 481;
\* ok = FALSE when build_query raised
generate_preview_sql(built) ==
  IF ~built.ok THEN NoPreview
  ELSE Preview(TRUE, ReplaceLoop(SqlChars(built.sql), built.params, 1))

(***************************************************************************)
(* The preview on its own: generate_preview_sql is called once for a       *)
(* configuration with up to MaxFilters filters.                            *)
(***************************************************************************)
MaxFilters == 2

\* the operand of a filter: a str, a str spelling a placeholder, an int,
\* None, and lists of 2, 10 and 11 one-letter strings
PreviewValueMenu ==
  {StrV("a"), StrV("$2"), StrV("$11"), IntV("5"), NoneV, ListV(<<"a", "b">>),
   ListV(<<"a", "b", "c", "d", "e", "f", "g", "h", "i", "j">>),
   ListV(<<"a", "b", "c", "d", "e", "f", "g", "h", "i", "j", "k">>)}

PreviewOperatorMenu == {"equals", "in", "between", "is_null"}

PreviewFilterMenu ==
  {FilterCondition("vehicles", "vehicle_label", operator, value, IntV("9")) :
     operator \in PreviewOperatorMenu, value \in PreviewValueMenu}

PreviewTimeScopeMenu ==
  { TimeScope(NoTimeRange, None, None),
    TimeScope(TimeRange("relative", 7, "days", None, None), "record_added_at", None) }

\* config.filters: up to MaxFilters filters of the menu
PreviewFiltersMenu == UNION {[1..n -> PreviewFilterMenu] : n \in 0..MaxFilters}

InitPreview ==
  /\ registry = ENTITIES
  /\ \E f \in PreviewFiltersMenu : \E t \in PreviewTimeScopeMenu :
       config = [ReportConfig("vehicles") EXCEPT
                   !.selected_fields = <<SelectedField("vehicles", "vehicle_id", None)>>,
                   !.filters = f,
                   !.time_range = t.time_range, !.time_field = t.time_field,
                   !.time_field_entity = t.time_field_entity]
  /\ now = NowStart
  /\ result = NotBuilt
  /\ first_result = NotBuilt
  /\ ledger = None
  /\ response = None
  /\ rate_limit_store = None
  /\ tokens = None
  /\ cred_files = None
  /\ stack = None
  /\ calls = None
  /\ condition = None
  /\ time_bounds = None
  /\ preview_sql = NoPreview
  /\ pc = "preview"
  /\ from_entity_id = None
  /\ to_entity_id = None
  /\ join_path = NoPath

\* one call generate_preview_sql(config)
GeneratePreviewSql ==
  /\ pc = "preview"
  /\ result' = build_query(registry, config, now)
  /\ preview_sql' = generate_preview_sql(result')
  /\ pc' = "previewed"
  /\ UNCHANGED <<registry, config, now, first_result,
                 from_entity_id, to_entity_id, join_path, condition, time_bounds,
                 calls,
                 stack,
                 cred_files,
                 tokens,
                 rate_limit_store,
                 response,
                 ledger>>

NextPreview == GeneratePreviewSql

SpecPreview == InitPreview /\ [][NextPreview]_vars

(***************************************************************************)
(* Concurrent callers.  Each caller runs build_query once, in five steps   *)
(* that interleave freely with the other callers' steps and with the       *)
(* clock: lines 280-311, 313-350, 352-394, 396-437 and 439-475.  A frame   *)
(* holds the locals of one call; given is the configuration as it was at   *)
(* the call, overlapped records that another call was in flight meanwhile. *)
(***************************************************************************)
MaxCallers == 2
Callers == 1..MaxCallers

CallConfigMenu ==
  { [ReportConfig("vehicles") EXCEPT
       !.selected_fields = <<SelectedField("vehicles", "vehicle_label", None)>>,
       !.filters = <<FilterCondition("vehicles", "vehicle_label", "contains",
                                     StrV("a"), NoneV)>>,
       !.time_range = TimeRange("relative", 7, "days", None, None),
       !.time_field = "record_added_at"],
    [ReportConfig("devices") EXCEPT
       !.selected_fields = <<SelectedField("objects", "object_label", None),
                             SelectedField("devices", "device_imei", None)>>,
       !.filters = <<FilterCondition("devices", "device_id", "in",
                                     ListV(<<"a", "b">>), NoneV)>>,
       !.sorting = <<SortConfig("devices", "device_imei", "DESC")>>],
    [ReportConfig("vehicles") EXCEPT
       !.selected_fields = <<SelectedField("tags", "tag_label", None)>>],
    ReportConfig("unknown_entity") }

IdleFrame ==
  [pc |-> "idle", cfg |-> ReportConfig("vehicles"), given |-> ReportConfig("vehicles"),
   overlapped |-> FALSE, utcnow |-> NowStart, used_entities |-> <<>>,
   select_parts |-> <<>>, group_by_fields |-> <<>>, from_clause |-> <<>>,
   join_clauses |-> <<>>, where_conditions |-> <<>>, params |-> <<>>,
   result |-> NotBuilt]

InFlight(fr) == fr.pc \notin {"idle", "returned"}

\* used_entities kept in one dictionary that every call fills and reads
Frame_SharedEntities(cs, c) == [cs[c] EXCEPT !.used_entities = cs[1].used_entities]

\* the locals of call c
Frame(cs, c) == cs[c]

\* raise ValueError(error)
Raise(fr, error) == [fr EXCEPT !.pc = "returned", !.result = Fail(error)]

\* lines 280-311: the primary entity, params, used_entities, table_aliases
CollectStep(reg, fr) ==
  IF get_entity(reg, fr.cfg.primary_entity) = NoEntity THEN Raise(fr, UnknownEntity)
  ELSE [fr EXCEPT !.pc = "select", !.used_entities = UsedEntities(reg, fr.cfg)]

\* lines 313-350: the SELECT list and the GROUP BY columns
SelectStep(reg, fr) ==
  LET selected == SelectLoop(reg, fr.cfg, fr.used_entities, Len(fr.cfg.selected_fields)) IN
  IF ~selected.ok THEN Raise(fr, InvalidIdentifier)
  ELSE IF IsEmptySelection(selected.select_parts) THEN Raise(fr, NoValidFields)
  ELSE [fr EXCEPT !.pc = "join", !.select_parts = selected.select_parts,
                  !.group_by_fields = selected.group_by_fields]

\* lines 352-394: the FROM clause and the JOIN clauses
JoinStep(reg, fr) ==
  LET primary_entity == get_entity(reg, fr.cfg.primary_entity)
      schema_name == _sanitize_identifier(primary_entity.schema_name)
      table_name == _sanitize_identifier(primary_entity.table_name)
      joins == JoinClauses(reg, fr.cfg, fr.used_entities)
  IN
  IF ~(schema_name.ok /\ table_name.ok) THEN Raise(fr, InvalidIdentifier)
  ELSE IF ~joins.ok THEN Raise(fr, joins.error)
  ELSE [fr EXCEPT !.pc = "where",
                  !.from_clause = <<schema_name.value, ".", table_name.value>>,
                  !.join_clauses = joins.join_clauses]

\* lines 396-437: the filter predicates and the time-range predicates;
\* utcnow is the clock at this step
WhereStep(reg, fr, utcnow) ==
  LET filtered == FilterLoop(reg, fr.cfg, fr.used_entities, Len(fr.cfg.filters)) IN
  IF ~filtered.ok THEN Raise(fr, filtered.error)
  ELSE LET timed == TimeRangeFilter(reg, fr.cfg, filtered, utcnow) IN
       IF ~timed.ok THEN Raise(fr, timed.error)
       ELSE [fr EXCEPT !.pc = "order", !.utcnow = utcnow,
                       !.where_conditions = timed.where_conditions,
                       !.params = timed.params]

\* lines 439-475: ORDER BY, the assembled text and the return
OrderStep(reg, fr) ==
  LET ordered == OrderLoop(reg, fr.cfg, fr.used_entities, Len(fr.cfg.sorting)) IN
  IF ~ordered.ok THEN Raise(fr, InvalidIdentifier)
  ELSE [fr EXCEPT !.pc = "returned",
                  !.result = Compiled(
                     Assemble(fr.select_parts, fr.from_clause, fr.join_clauses,
                              fr.where_conditions, fr.group_by_fields,
                              ordered.order_parts, fr.cfg.limit),
                     fr.params)]

InitConcurrent ==
  /\ registry = ENTITIES
  /\ config = ReportConfig("vehicles")
  /\ now = NowStart
  /\ result = NotBuilt
  /\ first_result = NotBuilt
  /\ ledger = None
  /\ response = None
  /\ rate_limit_store = None
  /\ tokens = None
  /\ cred_files = None
  /\ stack = None
  /\ condition = None
  /\ time_bounds = None
  /\ preview_sql = None
  /\ calls = [c \in Callers |-> IdleFrame]
  /\ pc = "concurrent"
  /\ from_entity_id = None
  /\ to_entity_id = None
  /\ join_path = NoPath

\* caller c calls build_query(cfg)
Call ==
  /\ pc = "concurrent"
  /\ \E c \in Callers, cfg \in CallConfigMenu :
       /\ calls[c].pc = "idle"
       /\ LET others == \E d \in Callers \ {c} : InFlight(calls[d]) IN
          calls' = [d \in Callers |->
                      IF d = c
                      THEN [IdleFrame EXCEPT !.pc = "collect", !.cfg = cfg, !.given = cfg,
                                             !.overlapped = others, !.utcnow = now]
                      ELSE IF InFlight(calls[d])
                           THEN [calls[d] EXCEPT !.overlapped = TRUE]
                           ELSE calls[d]]
  /\ UNCHANGED <<registry, config, now, result, first_result, pc,
                 from_entity_id, to_entity_id, join_path, condition, time_bounds,
                 preview_sql,
                 stack,
                 cred_files,
                 tokens,
                 rate_limit_store,
                 response,
                 ledger>>

Collect ==
  /\ pc = "concurrent"
  /\ \E c \in Callers :
       /\ calls[c].pc = "collect"
       /\ calls' = [calls EXCEPT ![c] = CollectStep(registry, Frame(calls, c))]
  /\ UNCHANGED <<registry, config, now, result, first_result, pc,
                 from_entity_id, to_entity_id, join_path, condition, time_bounds,
                 preview_sql,
                 stack,
                 cred_files,
                 tokens,
                 rate_limit_store,
                 response,
                 ledger>>

Select ==
  /\ pc = "concurrent"
  /\ \E c \in Callers :
       /\ calls[c].pc = "select"
       /\ calls' = [calls EXCEPT ![c] = SelectStep(registry, Frame(calls, c))]
  /\ UNCHANGED <<registry, config, now, result, first_result, pc,
                 from_entity_id, to_entity_id, join_path, condition, time_bounds,
                 preview_sql,
                 stack,
                 cred_files,
                 tokens,
                 rate_limit_store,
                 response,
                 ledger>>

Join ==
  /\ pc = "concurrent"
  /\ \E c \in Callers :
       /\ calls[c].pc = "join"
       /\ calls' = [calls EXCEPT ![c] = JoinStep(registry, Frame(calls, c))]
  /\ UNCHANGED <<registry, config, now, result, first_result, pc,
                 from_entity_id, to_entity_id, join_path, condition, time_bounds,
                 preview_sql,
                 stack,
                 cred_files,
                 tokens,
                 rate_limit_store,
                 response,
                 ledger>>

Where ==
  /\ pc = "concurrent"
  /\ \E c \in Callers :
       /\ calls[c].pc = "where"
       /\ calls' = [calls EXCEPT ![c] = WhereStep(registry, Frame(calls, c), now)]
  /\ UNCHANGED <<registry, config, now, result, first_result, pc,
                 from_entity_id, to_entity_id, join_path, condition, time_bounds,
                 preview_sql,
                 stack,
                 cred_files,
                 tokens,
                 rate_limit_store,
                 response,
                 ledger>>

Order ==
  /\ pc = "concurrent"
  /\ \E c \in Callers :
       /\ calls[c].pc = "order"
       /\ calls' = [calls EXCEPT ![c] = OrderStep(registry, Frame(calls, c))]
  /\ UNCHANGED <<registry, config, now, result, first_result, pc,
                 from_entity_id, to_entity_id, join_path, condition, time_bounds,
                 preview_sql,
                 stack,
                 cred_files,
                 tokens,
                 rate_limit_store,
                 response,
                 ledger>>

NextConcurrent ==
  \/ Call
  \/ Collect
  \/ Select
  \/ Join
  \/ Where
  \/ Order
  \/ Tick

SpecConcurrent == InitConcurrent /\ [][NextConcurrent]_vars

(***************************************************************************)
(* The SELECT list on its own: build_query is called once for a            *)
(* configuration of up to MaxSelected selected fields, each with any       *)
(* aggregation kind or none and with or without a display alias.           *)
(***************************************************************************)
MaxSelected == 2

SelectedAliasMenu ==
  {[SelectedField(ref[1], ref[2], aggregation) EXCEPT !.alias = alias] :
     ref \in {<<"vehicles", "max_speed">>, <<"objects", "object_label">>},
     aggregation \in AggregationType \cup {None},
     alias \in {None, "Total"}}

InitSelect ==
  /\ registry = ENTITIES
  /\ \E s \in UNION {[1..n -> SelectedAliasMenu] : n \in 0..MaxSelected} :
       config = [ReportConfig("vehicles") EXCEPT !.selected_fields = s]
  /\ now = NowStart
  /\ result = NotBuilt
  /\ first_result = NotBuilt
  /\ ledger = None
  /\ response = None
  /\ rate_limit_store = None
  /\ tokens = None
  /\ cred_files = None
  /\ stack = None
  /\ condition = None
  /\ time_bounds = None
  /\ preview_sql = None
  /\ calls = None
  /\ pc = "edit"
  /\ from_entity_id = None
  /\ to_entity_id = None
  /\ join_path = NoPath

NextSelect == BuildQuery

SpecSelect == InitSelect /\ [][NextSelect]_vars

(***************************************************************************)
(* The ORDER BY list on its own: build_query is called once for a          *)
(* configuration of up to MaxSorts sort specs.                             *)
(***************************************************************************)
MaxSorts == 2

\* "asc" is the default of SortConfig.direction
DirectionMenu == {"asc", "desc", "DESC", "Desc", "dEsC", "ASC", "", "descending"}

SortDirectionMenu ==
  {SortConfig(ref[1], ref[2], direction) :
     ref \in {<<"vehicles", "vehicle_label">>, <<"objects", "object_label">>,
              <<"vehicles", "unknown_field">>},
     direction \in DirectionMenu}

InitSort ==
  /\ registry = ENTITIES
  /\ \E o \in UNION {[1..n -> SortDirectionMenu] : n \in 0..MaxSorts} :
       config = [ReportConfig("vehicles") EXCEPT
                   !.selected_fields = <<SelectedField("vehicles", "vehicle_id", None)>>,
                   !.sorting = o]
  /\ now = NowStart
  /\ result = NotBuilt
  /\ first_result = NotBuilt
  /\ ledger = None
  /\ response = None
  /\ rate_limit_store = None
  /\ tokens = None
  /\ cred_files = None
  /\ stack = None
  /\ condition = None
  /\ time_bounds = None
  /\ preview_sql = None
  /\ calls = None
  /\ pc = "edit"
  /\ from_entity_id = None
  /\ to_entity_id = None
  /\ join_path = NoPath

NextSort == BuildQuery

SpecSort == InitSort /\ [][NextSort]_vars

(***************************************************************************)
(* The Time Range Resolver on its own: _calculate_time_range is called for *)
(* one time range after another while the clock advances.                  *)
(***************************************************************************)
\* relative_value of the request (relative_value or 0: None is the number 0)
CountMenu == {-1, 0, 1, 2, 7, 30}

\* relative_unit of the request: the five keys of delta_map, two strings
\* that are no key, and the two absent values of an Optional[str]
UnitMenu == {"hours", "days", "weeks", "months", "years", "fortnights", "Days", None, ""}

\* start_date and end_date of the request
DateMenu == {None, "", "2024-01-01", "2024-01-03T12:00:00", "yesterday"}

TimeRangeMenu ==
  {TimeRange("relative", n, u, None, None) : n \in CountMenu, u \in UnitMenu}
    \cup {TimeRange("absolute", 0, None, s, e) : s \in DateMenu, e \in DateMenu}

\* one call: its argument, the value utcnow() returned and the pair returned
\* (returned = FALSE before the first call)
TimeCall(returned, time_range, utcnow, bounds) ==
  [returned |-> returned, time_range |-> time_range, utcnow |-> utcnow,
   bounds |-> bounds]

InitTime ==
  /\ registry = ENTITIES
  /\ config = ReportConfig("vehicles")
  /\ now = NowStart
  /\ result = NotBuilt
  /\ first_result = NotBuilt
  /\ ledger = None
  /\ response = None
  /\ rate_limit_store = None
  /\ tokens = None
  /\ cred_files = None
  /\ stack = None
  /\ calls = None
  /\ preview_sql = None
  /\ condition = None
  /\ time_bounds = TimeCall(FALSE, NoTimeRange, NowStart,
                            _calculate_time_range(NoTimeRange, NowStart))
  /\ pc = "time"
  /\ from_entity_id = None
  /\ to_entity_id = None
  /\ join_path = NoPath

\* one call _calculate_time_range(config.time_range)
CalculateTimeRange ==
  /\ pc = "time"
  /\ \E time_range \in TimeRangeMenu :
       /\ config' = [config EXCEPT !.time_range = time_range]
       /\ time_bounds' = TimeCall(TRUE, time_range, now, _calculate_time_range(time_range, now))
  /\ UNCHANGED <<registry, now, result, first_result, pc,
                 from_entity_id, to_entity_id, join_path, condition,
                 preview_sql,
                 calls,
                 stack,
                 cred_files,
                 tokens,
                 rate_limit_store,
                 response,
                 ledger>>

NextTime ==
  \/ CalculateTimeRange
  \/ Tick

SpecTime == InitTime /\ [][NextTime]_vars

(***************************************************************************)
(* The Join Path Resolver on its own.  A registry over GraphIds is loaded  *)
(* one relationship declaration at a time (at most MaxRels of them,        *)
(* towards another entity, the entity itself or the id "users" that no     *)
(* entity carries); then _find_join_path is called for a pair of ids.      *)
(***************************************************************************)
MaxRels == 4

GraphIds == <<"objects", "vehicles", "devices", "tags">>
GraphTargets == Range(GraphIds) \cup {"users"}

\* the relationship owner -> target, with fields that tell its two ends apart
GraphRel(owner, target) ==
  R(target, "fk_" \o owner \o "_" \o target, "pk_" \o target,
    IF target = "devices" THEN "inner" ELSE "left")

EmptyGraphRegistry ==
  [i \in DOMAIN GraphIds |->
     [id |-> GraphIds[i], schema_name |-> "raw_business_data",
      table_name |-> GraphIds[i], fields |-> <<>>, relationships |-> <<>>]]

RECURSIVE CountRels(_, _)
CountRels(reg, i) ==
  IF i > Len(reg) THEN 0 ELSE Len(reg[i].relationships) + CountRels(reg, i + 1)

InitPath ==
  /\ registry = EmptyGraphRegistry
  /\ from_entity_id = None
  /\ to_entity_id = None
  /\ join_path = NoPath
  /\ pc = "load"
  /\ config = ReportConfig(None)
  /\ now = NowStart
  /\ result = NotBuilt
  /\ first_result = NotBuilt
  /\ ledger = None
  /\ response = None
  /\ rate_limit_store = None
  /\ tokens = None
  /\ cred_files = None
  /\ stack = None
  /\ calls = None
  /\ preview_sql = None
  /\ time_bounds = None
  /\ condition = None

\* the catalog declares one more relationship
DeclareRelationship ==
  /\ pc = "load"
  /\ CountRels(registry, 1) < MaxRels
  /\ \E i \in DOMAIN registry, target \in GraphTargets :
       /\ \A k \in DOMAIN registry[i].relationships :
            registry[i].relationships[k].target_entity # target
       /\ registry' = [registry EXCEPT ![i].relationships =
                         Append(@, GraphRel(registry[i].id, target))]
  /\ UNCHANGED <<config, now, result, first_result, pc,
                 from_entity_id, to_entity_id, join_path,
                 condition,
                 time_bounds,
                 preview_sql,
                 calls,
                 stack,
                 cred_files,
                 tokens,
                 rate_limit_store,
                 response,
                 ledger>>

\* a call _find_join_path(from_entity_id, to_entity_id) on the loaded registry
FindPath ==
  /\ pc = "load"
  /\ \E f \in Range(GraphIds), t \in Range(GraphIds) :
       /\ from_entity_id' = f
       /\ to_entity_id' = t
       /\ join_path' = _find_join_path(registry, f, t, {})
  /\ pc' = "returned"
  /\ UNCHANGED <<registry, config, now, result, first_result,
                 condition,
                 time_bounds,
                 preview_sql,
                 calls,
                 stack,
                 cred_files,
                 tokens,
                 rate_limit_store,
                 response,
                 ledger>>

NextPath ==
  \/ DeclareRelationship
  \/ FindPath

SpecPath == InitPath /\ [][NextPath]_vars

(***************************************************************************)
(* The recursion of _find_join_path step by step.  A frame is one call:    *)
(* its from_entity_id, its visited set and the loop it is in; the callee   *)
(* hands its value back in returning.  The call depth is capped at         *)
(* MaxDepth.                                                               *)
(***************************************************************************)
MaxDepth == 16

\* objects and vehicles declare each other, devices closes a longer cycle
\* and targets an id the registry does not hold; tags stands alone
CyclicRegistry ==
  [EmptyGraphRegistry EXCEPT
     ![1].relationships = <<GraphRel("objects", "vehicles")>>,
     ![2].relationships = <<GraphRel("vehicles", "objects"), GraphRel("vehicles", "devices")>>,
     ![3].relationships = <<GraphRel("devices", "users"), GraphRel("devices", "objects")>>]

RegistryMenu == {ENTITIES, CyclicRegistry}

CalledFrame(from_id, visited) ==
  [from_id |-> from_id, visited |-> visited, loop |-> "enter", k |-> 0]

NoReturn == [returning |-> FALSE, value |-> NoPath]
Return(value) == [returning |-> TRUE, value |-> value]

Stack(frames, handed) == [frames |-> frames, handed |-> handed]

\* a callee that starts from an empty visited set
ChildVisited_Fresh(visited) == {}

\* visited.copy(): the set the callee receives
ChildVisited(visited) == visited

Top(frames) == frames[Len(frames)]
Pop(frames) == SubSeq(frames, 1, Len(frames) - 1)
Resolving == pc = "resolving" /\ stack.frames # <<>> /\ ~stack.handed.returning

InitResolve ==
  /\ \E reg \in RegistryMenu :
       /\ registry = reg
       /\ \E f \in EntityIds(reg) \cup {"users"}, t \in EntityIds(reg) \cup {"users"} :
            /\ from_entity_id = f
            /\ to_entity_id = t
            /\ stack = Stack(<<CalledFrame(f, {})>>, NoReturn)
  /\ join_path = NoPath
  /\ pc = "resolving"
  /\ config = ReportConfig(None)
  /\ now = NowStart
  /\ result = NotBuilt
  /\ first_result = NotBuilt
  /\ ledger = None
  /\ response = None
  /\ rate_limit_store = None
  /\ tokens = None
  /\ cred_files = None
  /\ condition = None
  /\ time_bounds = None
  /\ preview_sql = None
  /\ calls = None

\* lines 222-251 of the call on top: the checks, visited.add, the two
\* direct lookups
Enter ==
  /\ Resolving
  /\ Top(stack.frames).loop = "enter"
  /\ LET fr == Top(stack.frames)
         visited1 == fr.visited \cup {fr.from_id}
         from_entity == get_entity(registry, fr.from_id)
         fwd == DirectForward(from_entity, to_entity_id)
         rev == DirectReverse(registry, fr.from_id, to_entity_id, visited1)
     IN stack' =
          IF fr.from_id = to_entity_id THEN Stack(Pop(stack.frames), Return(Path(<<>>)))
          ELSE IF fr.from_id \in fr.visited \/ from_entity = NoEntity
               THEN Stack(Pop(stack.frames), Return(NoPath))
          ELSE IF fwd.found THEN Stack(Pop(stack.frames), Return(fwd))
          ELSE IF rev.found THEN Stack(Pop(stack.frames), Return(rev))
          ELSE Stack(Append(Pop(stack.frames),
                            [fr EXCEPT !.visited = visited1, !.loop = "forward", !.k = 1]),
                     NoReturn)
  /\ UNCHANGED <<registry, config, now, result, first_result, pc, from_entity_id,
                 to_entity_id, join_path, condition, time_bounds, preview_sql, calls,
                 cred_files,
                 tokens,
                 rate_limit_store,
                 response,
                 ledger>>

\* lines 254-256: one turn of the loop over the declared relationships
Forward ==
  /\ Resolving
  /\ Top(stack.frames).loop = "forward"
  /\ LET fr == Top(stack.frames)
         rels == get_entity(registry, fr.from_id).relationships
     IN IF fr.k > Len(rels)
        THEN stack' = Stack(Append(Pop(stack.frames), [fr EXCEPT !.loop = "reverse", !.k = 1]),
                            NoReturn)
        ELSE IF rels[fr.k].target_entity \in fr.visited
        THEN stack' = Stack(Append(Pop(stack.frames), [fr EXCEPT !.k = @ + 1]), NoReturn)
        ELSE /\ Len(stack.frames) < MaxDepth
             /\ stack' = Stack(Append(stack.frames,
                                      CalledFrame(rels[fr.k].target_entity,
                                                  ChildVisited(fr.visited))),
                               NoReturn)
  /\ UNCHANGED <<registry, config, now, result, first_result, pc, from_entity_id,
                 to_entity_id, join_path, condition, time_bounds, preview_sql, calls,
                 cred_files,
                 tokens,
                 rate_limit_store,
                 response,
                 ledger>>

\* lines 262-267: one turn of the loops over the relationships towards
\* from_entity_id
Reverse ==
  /\ Resolving
  /\ Top(stack.frames).loop = "reverse"
  /\ LET fr == Top(stack.frames)
         edges == ReverseEdges(registry, fr.from_id, fr.visited, 1)
     IN IF fr.k > Len(edges)
        THEN stack' = Stack(Pop(stack.frames), Return(NoPath))
        ELSE /\ Len(stack.frames) < MaxDepth
             /\ stack' = Stack(Append(stack.frames,
                                      CalledFrame(edges[fr.k].entity_id,
                                                  ChildVisited(fr.visited))),
                               NoReturn)
  /\ UNCHANGED <<registry, config, now, result, first_result, pc, from_entity_id,
                 to_entity_id, join_path, condition, time_bounds, preview_sql, calls,
                 cred_files,
                 tokens,
                 rate_limit_store,
                 response,
                 ledger>>

\* lines 257-259 and 268-269: the caller receives sub_path
Resume ==
  /\ pc = "resolving"
  /\ stack.handed.returning
  /\ stack.frames # <<>>
  /\ LET fr == Top(stack.frames)
         sub_path == stack.handed.value
         rels == get_entity(registry, fr.from_id).relationships
         edges == ReverseEdges(registry, fr.from_id, fr.visited, 1)
         step == IF fr.loop = "forward" THEN ForwardStep(fr.from_id, rels[fr.k])
                 ELSE ReverseStep(fr.from_id, edges[fr.k].entity_id, edges[fr.k].rel)
     IN stack' =
          IF sub_path.found
          THEN Stack(Pop(stack.frames), Return(Path(<<step>> \o sub_path.path)))
          ELSE Stack(Append(Pop(stack.frames), [fr EXCEPT !.k = @ + 1]), NoReturn)
  /\ UNCHANGED <<registry, config, now, result, first_result, pc, from_entity_id,
                 to_entity_id, join_path, condition, time_bounds, preview_sql, calls,
                 cred_files,
                 tokens,
                 rate_limit_store,
                 response,
                 ledger>>

\* the outermost call returns
Finish ==
  /\ pc = "resolving"
  /\ stack.handed.returning
  /\ stack.frames = <<>>
  /\ join_path' = stack.handed.value
  /\ pc' = "returned"
  /\ UNCHANGED <<registry, config, now, result, first_result, from_entity_id,
                 to_entity_id, condition, time_bounds, preview_sql, calls, stack,
                 cred_files,
                 tokens,
                 rate_limit_store,
                 response,
                 ledger>>

NextResolve ==
  \/ Enter
  \/ Forward
  \/ Reverse
  \/ Resume
  \/ Finish

\* a call that can take a step takes it
SpecResolve == InitResolve /\ [][NextResolve]_vars /\ WF_vars(NextResolve)

(***************************************************************************)
(* The credential store: auth_server.py writes one file per email into     *)
(* CREDENTIALS_DIR; routes.py and app.py read the directory.  The clock    *)
(* is datetime.utcnow() in hours.                                          *)
(***************************************************************************)
JWT_EXPIRATION_HOURS == 24
MaxLogins == 2
MaxHours == 48

\* the email addresses requests carry, as typed
EmailMenu == {"ann@fleet.io", "Ann@Fleet.io ", "bob@fleet.io"}

\* email.lower().strip()
NormalizedEmail(email) ==
  CASE email \in {"ann@fleet.io", "Ann@Fleet.io "} -> "ann@fleet.io"
    [] email \in {"bob@fleet.io", " BOB@fleet.io"} -> "bob@fleet.io"
    [] OTHER -> email

Emails == {NormalizedEmail(e) : e \in EmailMenu}

\* the leading 16 bits of hashlib.sha256(email).hexdigest(): c0d9..., 9a1f...
EmailHash(email) ==
  CASE email = "ann@fleet.io" -> 49369
    [] email = "bob@fleet.io" -> 39455
    [] OTHER -> 0

DbUrlMenu == {"postgresql://iot-1", "postgresql://iot-2"}

NoFile ==
  [exists |-> FALSE, user_id |-> 0, email |-> None, iot_db_url |-> None,
   created_at |-> 0, expires_at |-> 0]

\* the credentials dictionary of store_credentials
CredentialFile(user_id, email, iot_db_url, utcnow) ==
  [exists |-> TRUE, user_id |-> user_id, email |-> NormalizedEmail(email),
   iot_db_url |-> iot_db_url, created_at |-> utcnow,
   expires_at |-> utcnow + JWT_EXPIRATION_HOURS]

\* _get_credential_path: the file is named after the hash of the normalized email
_get_credential_path(email) == NormalizedEmail(email)

store_credentials(files, user_id, email, iot_db_url, utcnow) ==
  [files EXCEPT ![_get_credential_path(email)] =
     CredentialFile(user_id, email, iot_db_url, utcnow)]

\* a clear_credentials that leaves the file
clear_credentials_Kept(files, email) == files

\* cred_path.unlink(missing_ok=True)
clear_credentials(files, email) == [files EXCEPT ![_get_credential_path(email)] = NoFile]

\* datetime.utcnow() > expires_at
Expired(file, utcnow) == utcnow > file.expires_at

\* auth_server.get_credentials: the record it returns (NoFile for None) and
\* the directory it leaves
get_credentials(files, email, utcnow) ==
  LET file == files[_get_credential_path(email)]
  IN IF ~file.exists THEN [cred |-> NoFile, files |-> files]
     ELSE IF Expired(file, utcnow)
          THEN [cred |-> NoFile, files |-> clear_credentials(files, email)]
     ELSE [cred |-> file, files |-> files]

\* generate_jwt_token: the payload
Token(email, utcnow) ==
  [email |-> NormalizedEmail(email), exp |-> utcnow + JWT_EXPIRATION_HOURS]

NoToken == [email |-> None, exp |-> 0]

\* validate_jwt_token: jwt.decode rejects a token once exp is reached, and
\* one the server did not sign
ValidToken(token, issued, utcnow) == token \in issued /\ utcnow < token.exp

\* sorted(cred_files, reverse=True): file names in descending order
RECURSIVE SortedReverse(_)
SortedReverse(names) ==
  IF names = {} THEN <<>>
  ELSE LET top == CHOOSE e \in names : \A o \in names : EmailHash(o) <= EmailHash(e)
       IN <<top>> \o SortedReverse(names \ {top})

\* routes._get_db_connection, lines 235-246: the first unexpired file in that order
RECURSIVE FirstUnexpired(_, _, _, _)
FirstUnexpired(files, order, utcnow, i) ==
  IF i > Len(order) THEN NoFile
  ELSE IF utcnow <= files[order[i]].expires_at THEN files[order[i]]
  ELSE FirstUnexpired(files, order, utcnow, i + 1)

ExistingFiles(files) == {e \in DOMAIN files : files[e].exists}

_get_db_connection(files, utcnow) ==
  FirstUnexpired(files, SortedReverse(ExistingFiles(files)), utcnow, 1)

\* app.get_credentials, lines 187-202: the unexpired files in the order glob
\* lists them
ValidCredentials(files, order, utcnow) ==
  SelectSeq([i \in 1..Len(order) |-> files[order[i]]],
            LAMBDA file : utcnow <= file.expires_at)

\* the orders in which glob can list the files
GlobOrders(files) ==
  {order \in UNION {[1..n -> ExistingFiles(files)] : n \in {Cardinality(ExistingFiles(files))}} :
     \A i, j \in DOMAIN order : i # j => order[i] # order[j]}

\* app.get_credentials, line 204: expired files are removed
WithoutExpired(files, utcnow) ==
  [e \in DOMAIN files |->
     IF files[e].exists /\ utcnow > files[e].expires_at THEN NoFile ELSE files[e]]

Response(op, email, cred, utcnow) ==
  [op |-> op, email |-> email, found |-> cred.exists, cred |-> cred, at |-> utcnow]

NoLedgerEntry == [stored |-> NoFile, logged_out |-> FALSE]

InitAuth ==
  /\ cred_files = [e \in Emails |-> NoFile]
  /\ tokens = {}
  /\ response = Response("start", None, NoFile, NowStart)
  /\ ledger = [logins |-> 0, order |-> <<>>, of |-> [e \in Emails |-> NoLedgerEntry]]
  /\ rate_limit_store = None
  /\ pc = "auth"
  /\ registry = ENTITIES
  /\ config = ReportConfig(None)
  /\ now = NowStart
  /\ result = NotBuilt
  /\ first_result = NotBuilt
  /\ from_entity_id = None
  /\ to_entity_id = None
  /\ join_path = NoPath
  /\ condition = None
  /\ time_bounds = None
  /\ preview_sql = None
  /\ calls = None
  /\ stack = None

\* the clock moves on
Elapse ==
  /\ pc = "auth"
  /\ \E hours \in {JWT_EXPIRATION_HOURS \div 2, JWT_EXPIRATION_HOURS} :
       /\ now + hours <= NowStart + MaxHours
       /\ now' = now + hours
  /\ UNCHANGED <<registry, config, result, first_result, pc, from_entity_id,
                 to_entity_id, join_path, condition, time_bounds, preview_sql, calls,
                 stack, cred_files, tokens, rate_limit_store, response, ledger>>

\* POST /api/auth/login, lines 379-422
AuthLogin ==
  /\ pc = "auth"
  /\ ledger.logins < MaxLogins
  /\ \E typed \in EmailMenu, iotDbUrl \in DbUrlMenu :
       LET email == NormalizedEmail(typed)
           existing_creds == get_credentials(cred_files, email, now)
           user_id == IF existing_creds.cred.exists THEN existing_creds.cred.user_id
                      ELSE ledger.logins + 1
           files == store_credentials(existing_creds.files, user_id, email, iotDbUrl, now)
       IN /\ cred_files' = files
          /\ tokens' = tokens \cup {Token(email, now)}
          /\ response' = Response("login", email, files[email], now)
          /\ ledger' = [logins |-> ledger.logins + 1,
                        order |-> Append(ledger.order, email),
                        of |-> [ledger.of EXCEPT ![email] =
                                  [stored |-> files[email], logged_out |-> FALSE]]]
  /\ UNCHANGED <<registry, config, now, result, first_result, pc, from_entity_id,
                 to_entity_id, join_path, condition, time_bounds, preview_sql, calls,
                 stack, rate_limit_store>>

\* POST /api/auth/logout, lines 493-502: without a header, with a token the
\* server issued, or with one it did not
AuthLogout ==
  /\ pc = "auth"
  /\ \E token \in tokens \cup {NoToken, Token("eve@fleet.io", now)} :
       IF token # NoToken /\ ValidToken(token, tokens, now)
       THEN /\ cred_files' = clear_credentials(cred_files, token.email)
            /\ response' = Response("logout", token.email, NoFile, now)
            /\ ledger' = [ledger EXCEPT !.of[token.email].logged_out = TRUE]
       ELSE /\ response' = Response("logout", None, NoFile, now)
            /\ UNCHANGED <<cred_files, ledger>>
  /\ UNCHANGED <<registry, config, now, result, first_result, pc, from_entity_id,
                 to_entity_id, join_path, condition, time_bounds, preview_sql, calls,
                 stack, tokens, rate_limit_store>>

\* auth_server.get_credentials(email), lines 220-252
GetCredentials ==
  /\ pc = "auth"
  /\ \E typed \in EmailMenu :
       LET got == get_credentials(cred_files, typed, now)
       IN /\ cred_files' = got.files
          /\ response' = Response("lookup", NormalizedEmail(typed), got.cred, now)
  /\ UNCHANGED <<registry, config, now, result, first_result, pc, from_entity_id,
                 to_entity_id, join_path, condition, time_bounds, preview_sql, calls,
                 stack, tokens, rate_limit_store, ledger>>

\* routes._get_db_connection, lines 198-251
GetDbConnection ==
  /\ pc = "auth"
  /\ response' = Response("connect", None, _get_db_connection(cred_files, now), now)
  /\ UNCHANGED <<registry, config, now, result, first_result, pc, from_entity_id,
                 to_entity_id, join_path, condition, time_bounds, preview_sql, calls,
                 stack, cred_files, tokens, rate_limit_store, ledger>>

\* app.get_credentials, lines 173-214
DashboardGetCredentials ==
  /\ pc = "auth"
  /\ \E order \in GlobOrders(cred_files) :
       LET valid_credentials == ValidCredentials(cred_files, order, now)
       IN response' = Response("dashboard", None,
                               IF valid_credentials # <<>>
                               THEN valid_credentials[Len(valid_credentials)]
                               ELSE NoFile,
                               now)
  /\ cred_files' = WithoutExpired(cred_files, now)
  /\ UNCHANGED <<registry, config, now, result, first_result, pc, from_entity_id,
                 to_entity_id, join_path, condition, time_bounds, preview_sql, calls,
                 stack, tokens, rate_limit_store, ledger>>

NextAuth ==
  \/ Elapse
  \/ AuthLogin
  \/ AuthLogout
  \/ GetCredentials
  \/ GetDbConnection
  \/ DashboardGetCredentials

SpecAuth == InitAuth /\ [][NextAuth]_vars

(***************************************************************************)
(* The rate limiter of the auth server.  The clock is time.time() in       *)
(* seconds.  RATE_LIMIT_REQUESTS and RATE_LIMIT_WINDOW are read from the   *)
(* environment (lines 70-71); the model runs with a small setting.         *)
(***************************************************************************)
RATE_LIMIT_REQUESTS == 3
RATE_LIMIT_WINDOW == 4
MaxRequests == 5
MaxSeconds == 6

\* the first address of X-Forwarded-For, or the peer's
ClientMenu == {"10.0.0.1", "10.0.0.2"}

PathMenu == {"/api/reports/execute", "/health"}

\* request.url.path.startswith("/api")
IsApiPath(path) == path = "/api/reports/execute"

\* [t for t in _rate_limit_store[client_ip] if t > window_start]
Pruned(times, window_start) == SelectSeq(times, LAMBDA t : t > window_start)

\* a limit that lets one request more through
Exceeded_Over(times) == Len(times) > RATE_LIMIT_REQUESTS

\* len(_rate_limit_store[client_ip]) >= RATE_LIMIT_REQUESTS
Exceeded(times) == Len(times) >= RATE_LIMIT_REQUESTS

\* check_rate_limit: its answer and the store it leaves; a client the store
\* does not hold has the empty list
check_rate_limit(store, client_ip, time) ==
  LET window_start == time - RATE_LIMIT_WINDOW
      kept == Pruned(store[client_ip], window_start)
  IN IF Exceeded(kept)
     THEN [allowed |-> FALSE, store |-> [store EXCEPT ![client_ip] = kept]]
     ELSE [allowed |-> TRUE, store |-> [store EXCEPT ![client_ip] = Append(kept, time)]]

Answer(client_ip, path, allowed, time) ==
  [op |-> "request", client |-> client_ip, path |-> path, allowed |-> allowed, at |-> time]

InitRate ==
  /\ rate_limit_store = [c \in ClientMenu |-> <<>>]
  /\ response = Answer(None, None, TRUE, NowStart)
  /\ ledger = [requests |-> 0, admitted |-> [c \in ClientMenu |-> <<>>]]
  /\ cred_files = None
  /\ tokens = None
  /\ pc = "rate"
  /\ registry = ENTITIES
  /\ config = ReportConfig(None)
  /\ now = NowStart
  /\ result = NotBuilt
  /\ first_result = NotBuilt
  /\ from_entity_id = None
  /\ to_entity_id = None
  /\ join_path = NoPath
  /\ condition = None
  /\ time_bounds = None
  /\ preview_sql = None
  /\ calls = None
  /\ stack = None

\* a second passes
Second ==
  /\ pc = "rate"
  /\ now < NowStart + MaxSeconds
  /\ now' = now + 1
  /\ UNCHANGED <<registry, config, result, first_result, pc, from_entity_id,
                 to_entity_id, join_path, condition, time_bounds, preview_sql, calls,
                 stack, cred_files, tokens, rate_limit_store, response, ledger>>

\* request_middleware, lines 352-359: requests under /api pass through
\* check_rate_limit
RequestMiddleware ==
  /\ pc = "rate"
  /\ ledger.requests < MaxRequests
  /\ \E client_ip \in ClientMenu, path \in PathMenu :
       IF IsApiPath(path)
       THEN LET checked == check_rate_limit(rate_limit_store, client_ip, now)
            IN /\ rate_limit_store' = checked.store
               /\ response' = Answer(client_ip, path, checked.allowed, now)
               /\ ledger' = [requests |-> ledger.requests + 1,
                             admitted |-> IF checked.allowed
                                          THEN [ledger.admitted EXCEPT
                                                  ![client_ip] = Append(@, now)]
                                          ELSE ledger.admitted]
       ELSE /\ response' = Answer(client_ip, path, TRUE, now)
            /\ ledger' = [ledger EXCEPT !.requests = @ + 1]
            /\ UNCHANGED rate_limit_store
  /\ UNCHANGED <<registry, config, now, result, first_result, pc, from_entity_id,
                 to_entity_id, join_path, condition, time_bounds, preview_sql, calls,
                 stack, cred_files, tokens>>

NextRate ==
  \/ Second
  \/ RequestMiddleware

SpecRate == InitRate /\ [][NextRate]_vars

(***************************************************************************)
(* Properties of the compiler (build_query)                                *)
(***************************************************************************)
\* the build the state holds the result of: build_query returned a query
Accepted == pc = "built" /\ result.ok

\* the moments at which the result of the state may have been computed
BuildTimes == NowStart..now

\* the tokens of the text that are placeholders, in their order in the text
PlaceholdersOf(sql) ==
  LET placeholders == {Placeholder(k) : k \in 0..Len(sql)}
      Test(token) == token \in placeholders
  IN SelectSeq(sql, Test)

\* the values a filter binds, in the order of its placeholders
FilterValues(filter_) ==
  LET op == filter_.operator
      value == filter_.value
  IN
  CASE op \in {"is_null", "is_not_null"} -> <<>>
    [] op \in {"contains", "not_contains"} -> <<StrV("%" \o PyStr(value) \o "%")>>
    [] op = "starts_with" -> <<StrV(PyStr(value) \o "%")>>
    [] op = "ends_with" -> <<StrV("%" \o PyStr(value))>>
    [] op = "between" -> <<value, filter_.value2>>
    [] op \in {"in", "not_in"} /\ IsList(value) ->
         [i \in DOMAIN value.items |-> StrV(value.items[i])]
    [] OTHER -> <<value>>

\* the filters of the configuration that are not skipped, in order
AppliedFilters(reg, cfg) ==
  LET Test(filter_) == Resolves(reg, UsedEntities(reg, cfg), filter_) IN
  SelectSeq(cfg.filters, Test)

\* the values the time-range bounds bind at the moment utcnow
BoundValues(reg, cfg, utcnow) ==
  IF ~HasTimeScope(reg, cfg) THEN <<>>
  ELSE LET range == _calculate_time_range(cfg.time_range, utcnow) IN
       (IF range.start.some THEN <<StrV(isoformat(range.start.t))>> ELSE <<>>)
       \o (IF range.end.some THEN <<StrV(isoformat(range.end.t))>> ELSE <<>>)

\* the values of a configuration in the order their predicates are written
BoundParameters(reg, cfg, utcnow) ==
  LET applied == AppliedFilters(reg, cfg) IN
  Flatten([i \in DOMAIN applied |-> FilterValues(applied[i])])
  \o BoundValues(reg, cfg, utcnow)

\* C1: for every configuration build_query accepts, the placeholders of the
\* returned text are exactly $1..$n in this order, n being the length of the
\* returned parameter array, and the parameter at position k is the value of
\* the k-th placeholder's predicate: the values of the filters that are not
\* skipped (one per IN-list element), then the time-range bounds.
C1_PlaceholdersAligned ==
  Accepted =>
    /\ PlaceholdersOf(result.sql) =
         [k \in 1..Len(result.params) |-> Placeholder(k)]
    /\ \E utcnow \in BuildTimes :
         result.params = BoundParameters(registry, config, utcnow)

\* C1 witness: an accepted configuration with an IN list and both time-range
\* bounds, four parameters in all.
C1_Witness ==
  /\ Accepted
  /\ Len(result.params) >= 4
  /\ HasTimeScope(registry, config)
  /\ \E i \in DOMAIN config.filters :
       /\ IsList(config.filters[i].value)
       /\ Resolves(registry, UsedEntities(registry, config), config.filters[i])

\* the identifiers written into the text: every one of them is written
\* qualified (alias.field, schema.table, table.field), each side of the dot
\* being a value _sanitize_identifier returned
IdentifiersOf(sql) ==
  {sql[i] : i \in {j \in DOMAIN sql : \/ j > 1 /\ sql[j - 1] = "."
                                      \/ j < Len(sql) /\ sql[j + 1] = "."}}

\* C2: a candidate identifier that contains a character outside [A-Za-z0-9_],
\* starts with a digit or is empty makes _sanitize_identifier fail and the
\* whole build fail: no accepted build has such an identifier in its text.
\* (Violated: the name "vehicle_label\n" passes the check, the "$" of the
\* pattern matching before a final newline.)
C2_IdentifiersStrict ==
  Accepted => \A name \in IdentifiersOf(result.sql) : StrictIdentifier(name)

\* other values for a configuration: a scalar v for the filter values and
\* the IN-list elements, a date d for the dates of an absolute time range, a
\* number n for the length of a relative one
Revaluations ==
  { [v |-> "b", d |-> "2024-01-03T12:00:00", n |-> 1],
    [v |-> "x' OR '1'='1", d |-> "2024-01-01", n |-> 30] }

RevaluedValue(value, v) ==
  CASE value.kind = "none" -> value
    [] value.kind = "list" -> ListV([i \in DOMAIN value.items |-> v])
    [] OTHER -> StrV(v)

RevaluedTimeRange(time_range, d, n) ==
  [time_range EXCEPT
     !.relative_value = IF time_range.type = "relative" THEN n ELSE @,
     !.start_date = IF Truthy(@) THEN d ELSE @,
     !.end_date = IF Truthy(@) THEN d ELSE @]

\* the configuration cfg with its values replaced: same references, same
\* operators, same list lengths, same bounds present
Revalued(cfg, r) ==
  [cfg EXCEPT
     !.filters = [i \in DOMAIN @ |->
                    [@[i] EXCEPT !.value = RevaluedValue(@, r.v),
                                 !.value2 = RevaluedValue(@, r.v)]],
     !.time_range = RevaluedTimeRange(@, r.d, r.n)]

\* C3: filter values and time-range bounds are never embedded in the text:
\* a configuration that differs from an accepted one only in the scalar
\* values of its filters (value, value2, elements of an IN list of the same
\* length) or in its time-range bounds compiles to the same text.
C3_ValuesNotInText ==
  Accepted =>
    \A r \in Revaluations :
      LET other == build_query(registry, Revalued(config, r), now) IN
      other.ok /\ other.sql = result.sql

\* C3 witness: an accepted configuration with a filter value and a time
\* range, whose parameter array changes with the values while the text holds
\* the placeholders.
C3_Witness ==
  /\ Accepted
  /\ HasTimeScope(registry, config)
  /\ AppliedFilters(registry, config) # <<>>
  /\ Len(result.params) >= 3
  /\ \E r \in Revaluations :
       LET other == build_query(registry, Revalued(config, r), now) IN
       /\ other.params # result.params
       /\ Len(other.params) = Len(result.params)

\* the configuration has a time range in effect that is resolved against
\* the clock (line 194: every type but "absolute")
RelativeInEffect(reg, cfg) ==
  HasTimeScope(reg, cfg) /\ cfg.time_range.type # "absolute"

\* C4 as stated: two calls of build_query with the same configuration and
\* registry, at any two moments, return the same text and the same parameter
\* array.  (Violated: the bounds of a relative time range are computed from
\* datetime.utcnow() inside the call.)
C4_SameResultAtAnyMoment ==
  pc = "built" => result = first_result

\* C4, amended: two calls with the same configuration and registry return
\* the same outcome and the same text at any two moments; the parameter
\* arrays have the same length, and are identical when the clock reads the
\* same in both calls or no relative time range is in effect.
C4_SameTextSameParamsGivenClock ==
  pc = "built" =>
    /\ result.ok = first_result.ok
    /\ result.error = first_result.error
    /\ result.sql = first_result.sql
    /\ Len(result.params) = Len(first_result.params)
    /\ (now = NowStart \/ ~RelativeInEffect(registry, config))
         => result.params = first_result.params

\* C4 witness: a configuration with a relative time range compiled twice, the
\* clock having moved in between: same text, other bounds.
C4_Witness ==
  /\ Accepted
  /\ now > NowStart
  /\ RelativeInEffect(registry, config)
  /\ result.sql = first_result.sql
  /\ result.params # first_result.params

\* the reference names a declared (entity, field) pair of the registry
Declared(reg, ref) ==
  /\ get_entity(reg, ref.entity_id) # NoEntity
  /\ find_field(get_entity(reg, ref.entity_id), ref.field_id) # NoField

\* the selected-field, filter and sort references of a configuration
References(cfg) ==
  Range(cfg.selected_fields) \cup Range(cfg.filters) \cup Range(cfg.sorting)

\* C5: a configuration with a selected-field, filter or sort reference that
\* names no declared (entity, field) pair of the registry is rejected, never
\* compiled with the unresolved element dropped.  (Violated: the three loops
\* skip such a reference and the build goes on.)
C5_UnresolvedReferenceRejected ==
  pc = "built" =>
    ((\E ref \in References(config) : ~Declared(registry, ref)) => ~result.ok)

\* C6: build_query fails with a configuration error, returning neither text
\* nor parameters, when the primary entity id is not in the registry, and
\* when none of the selected fields names a declared (entity, field) pair
\* (the empty selected-field list included).
C6_ConfigurationErrors ==
  pc = "built" =>
    /\ get_entity(registry, config.primary_entity) = NoEntity
         => result = Fail(UnknownEntity)
    /\ ( /\ get_entity(registry, config.primary_entity) # NoEntity
         /\ \A ref \in Range(config.selected_fields) : ~Declared(registry, ref) )
         => result = Fail(NoValidFields)

\* C6 witness: a known primary entity, selected fields and a filter, none of
\* the selected fields resolving.
C6_Witness ==
  /\ pc = "built"
  /\ get_entity(registry, config.primary_entity) # NoEntity
  /\ Len(config.selected_fields) >= 2
  /\ config.filters # <<>>
  /\ \A ref \in Range(config.selected_fields) : ~Declared(registry, ref)
  /\ result = Fail(NoValidFields)

\* reading the text back: the position of the first token among ks
FirstPos(sql, ks) ==
  CHOOSE i \in DOMAIN sql : sql[i] \in ks /\ \A j \in 1..(i - 1) : sql[j] \notin ks

\* the tables the text brings in: "FROM schema . table" and every
\* "JOIN schema . table"
TablesInScope(sql) ==
  {sql[i + 3] : i \in {j \in DOMAIN sql : sql[j] \in {"FROM", "JOIN"}}}

\* the table names that qualify a column of the SELECT list, of a WHERE
\* predicate, of GROUP BY or of ORDER BY: the tokens before a dot, outside
\* the FROM and JOIN clauses
ColumnQualifiers(sql) ==
  LET from == FirstPos(sql, {"FROM"})
      tail == FirstPos(sql, {"WHERE", "GROUP BY", "ORDER BY", "LIMIT"})
  IN {sql[i] : i \in {j \in 1..(Len(sql) - 1) :
                        sql[j + 1] = "." /\ (j < from \/ j > tail)}}

\* C7: in every accepted build, every table name that qualifies a column in
\* the SELECT list, in a WHERE predicate (filter or time-range predicate), in
\* GROUP BY or in ORDER BY is the table named in FROM or the table of an
\* emitted JOIN clause; the entity of an explicit time-scope field is joined
\* like the entities of selected fields, filters and sort specs.  (Violated:
\* the time-scope entity gets a table alias and no JOIN.)
C7_ColumnsInScope ==
  Accepted => ColumnQualifiers(result.sql) \subseteq TablesInScope(result.sql)

(***************************************************************************)
(* Properties of the Join Path Resolver                                    *)
(***************************************************************************)
\* the relationship graph: two entities of the registry are adjacent when one
\* of them declares a relationship that targets the other
Adjacent(reg, a, b) ==
  \/ \E k \in DOMAIN get_entity(reg, a).relationships :
       get_entity(reg, a).relationships[k].target_entity = b
  \/ \E k \in DOMAIN get_entity(reg, b).relationships :
       get_entity(reg, b).relationships[k].target_entity = a

RECURSIVE Reachable(_, _)
Reachable(reg, seen) ==
  LET more == seen \cup {b \in EntityIds(reg) : \E a \in seen : Adjacent(reg, a, b)} IN
  IF more = seen THEN seen ELSE Reachable(reg, more)

Connected(reg, a, b) == b \in Reachable(reg, {a})

\* C8: for every registry and every pair of its entities, _find_join_path
\* returns a path exactly when the two entities are connected in the
\* relationship graph read in both directions: a path whenever one exists
\* (whatever branches failed before), not-found only when none exists.
C8_PathFoundIffConnected ==
  pc = "returned" =>
    (join_path.found <=> Connected(registry, from_entity_id, to_entity_id))

\* C8 witness: a path of several steps that starts with a reverse edge, found
\* although the source entity declares relationships of its own (its forward
\* branches were tried first and failed).
C8_Witness ==
  /\ pc = "returned"
  /\ join_path.found
  /\ Len(join_path.path) >= 2
  /\ join_path.path[1].from_field = "pk_" \o from_entity_id
  /\ \E k \in DOMAIN get_entity(registry, from_entity_id).relationships :
       get_entity(registry, from_entity_id).relationships[k].target_entity
         \in Range(GraphIds) \ {from_entity_id}

(***************************************************************************)
(* Properties of the joins of build_query                                  *)
(***************************************************************************)
\* the entities a configuration requires: those of its selected fields,
\* filters and sort specs, and the entity of the time-scope field in effect
RequiredEntities(reg, cfg) ==
  {ref.entity_id : ref \in {r \in References(cfg) : get_entity(reg, r.entity_id) # NoEntity}}
  \cup (IF HasTimeScope(reg, cfg) THEN {TimeEntityId(cfg)} ELSE {})

NonPrimaryRequired(reg, cfg) == RequiredEntities(reg, cfg) \ {cfg.primary_entity}

\* C9: if a required non-primary entity of the configuration has no
\* relationship path from the primary entity, build_query fails the whole
\* build and returns no text.  (Violated for an entity required by the
\* time-scope field only: no join path is looked for, see C7.)
C9_UnreachableEntityFails ==
  (pc = "built" /\ get_entity(registry, config.primary_entity) # NoEntity) =>
    ((\E e \in NonPrimaryRequired(registry, config) :
        ~Connected(registry, config.primary_entity, e))
     => ~result.ok /\ result.sql = <<>>)

\* the number of JOIN clauses of the text
JoinCount(sql) == Cardinality({i \in DOMAIN sql : sql[i] = "JOIN"})

\* C10: when every required non-primary entity is a direct neighbour of the
\* primary entity (either of the two declares a relationship to the other),
\* an accepted build has one JOIN clause per distinct required non-primary
\* entity.  (Violated for an entity required by the time-scope field only:
\* it gets no JOIN clause, see C7.)
C10_OneJoinPerNeighbour ==
  Accepted =>
    ((\A e \in NonPrimaryRequired(registry, config) :
        Adjacent(registry, config.primary_entity, e))
     => JoinCount(result.sql) = Cardinality(NonPrimaryRequired(registry, config)))

\* reading the JOIN clauses back ("<type> JOIN schema . table ON left . field
\* = table . field"): the positions of the JOIN tokens, the table a clause
\* brings in and the left-hand table of its ON condition
JoinPositions(sql) == {i \in DOMAIN sql : sql[i] = "JOIN"}
JoinedTable(sql, i) == sql[i + 3]
LeftHandTable(sql, i) == sql[i + 5]

\* the table named in FROM
FromTable(sql) == sql[FirstPos(sql, {"FROM"}) + 3]

\* the position of the JOIN clause that brings in the table, 0 if none does
JoinPositionOf(sql, table) ==
  IF \E i \in JoinPositions(sql) : JoinedTable(sql, i) = table
  THEN CHOOSE i \in JoinPositions(sql) : JoinedTable(sql, i) = table
  ELSE 0

ClauseKeywords == {"SELECT", "FROM", "JOIN", "WHERE", "GROUP BY", "ORDER BY", "LIMIT"}

\* the clause keywords of the text, in their order in the text
KeywordsOf(sql) ==
  LET Test(token) == token \in ClauseKeywords IN SelectSeq(sql, Test)

\* the place of a clause in SELECT, FROM, JOIN*, WHERE, GROUP BY, ORDER BY, LIMIT
ClauseRank(keyword) ==
  CASE keyword = "SELECT" -> 1
    [] keyword = "FROM" -> 2
    [] keyword = "JOIN" -> 3
    [] keyword = "WHERE" -> 4
    [] keyword = "GROUP BY" -> 5
    [] keyword = "ORDER BY" -> 6
    [] keyword = "LIMIT" -> 7

Occurrences(seq, x) == Cardinality({i \in DOMAIN seq : seq[i] = x})

\* the terms of the three optional clauses, read from the configuration
HasWhereTerm(reg, cfg) ==
  AppliedFilters(reg, cfg) # <<>> \/ BoundValues(reg, cfg, NowStart) # <<>>
HasGroupByTerm(reg, cfg) ==
  \E i \in DOMAIN cfg.selected_fields :
    /\ Declared(reg, cfg.selected_fields[i])
    /\ cfg.selected_fields[i].aggregation = None
    /\ IsInGroupBy(cfg, cfg.selected_fields[i])
HasOrderByTerm(reg, cfg) ==
  \E i \in DOMAIN cfg.sorting : Declared(reg, cfg.sorting[i])

\* C12: the text of every accepted build has exactly one SELECT, one FROM
\* and one LIMIT, at most one each of WHERE, GROUP BY and ORDER BY, in the
\* order SELECT, FROM, JOIN*, WHERE, GROUP BY, ORDER BY, LIMIT; WHERE, GROUP
\* BY and ORDER BY are present exactly when they have at least one term.
C12_ClauseOrder ==
  Accepted =>
    LET keywords == KeywordsOf(result.sql) IN
    /\ \A k \in ClauseKeywords \ {"JOIN"} : Occurrences(keywords, k) <= 1
    /\ \A k \in {"SELECT", "FROM", "LIMIT"} : Occurrences(keywords, k) = 1
    /\ result.sql[1] = "SELECT"
    /\ result.sql[Len(result.sql) - 1] = "LIMIT"
    /\ \A i \in DOMAIN keywords : \A j \in DOMAIN keywords :
         i < j => ClauseRank(keywords[i]) <= ClauseRank(keywords[j])
    /\ Occurrences(keywords, "WHERE") = 1 <=> HasWhereTerm(registry, config)
    /\ Occurrences(keywords, "GROUP BY") = 1 <=> HasGroupByTerm(registry, config)
    /\ Occurrences(keywords, "ORDER BY") = 1 <=> HasOrderByTerm(registry, config)

\* C12 witness: a build with every clause, two JOIN clauses among them.
C12_Witness ==
  /\ Accepted
  /\ Occurrences(KeywordsOf(result.sql), "JOIN") = 2
  /\ \A k \in ClauseKeywords \ {"JOIN"} : Occurrences(KeywordsOf(result.sql), k) = 1

\* C13: every accepted build ends with the one clause LIMIT min(L, 10000),
\* L being the requested limit: the emitted limit never exceeds 10000 and
\* equals L whenever L <= 10000.
C13_LimitClamped ==
  Accepted =>
    /\ Occurrences(result.sql, "LIMIT") = 1
    /\ result.sql[Len(result.sql) - 1] = "LIMIT"
    /\ config.limit <= MaxLimit => result.sql[Len(result.sql)] = ToString(config.limit)
    /\ config.limit > MaxLimit => result.sql[Len(result.sql)] = ToString(MaxLimit)

\* C13 witness: the requested limit 999999 compiled to LIMIT 10000.
C13_Witness ==
  /\ Accepted
  /\ config.limit = 999999
  /\ result.sql[Len(result.sql) - 1] = "LIMIT"
  /\ result.sql[Len(result.sql)] = "10000"

(***************************************************************************)
(* Properties of the Filter Compiler                                       *)
(***************************************************************************)
\* the operator table: the number of values a filter binds
ValueCount(filter_) ==
  CASE filter_.operator \in {"is_null", "is_not_null"} -> 0
    [] filter_.operator = "between" -> 2
    [] filter_.operator \in {"in", "not_in"} /\ IsList(filter_.value) ->
         Len(filter_.value.items)
    [] OTHER -> 1

\* the placeholders of a predicate, in their order in the text
PlaceholdersOfPredicate(text, param_idx) ==
  LET placeholders == {Placeholder(k) : k \in 0..param_idx}
      Test(token) == token \in placeholders
  IN SelectSeq(text, Test)

\* C14: a call of _build_filter_condition appends to the parameter array
\* exactly the number of values of the operator table and advances the
\* placeholder index by the same amount (0 for is_null / is_not_null, 2 for
\* between with value before value2, one per element for in / not_in with a
\* list, 1 otherwise); in / not_in with a non-list value is the equality /
\* inequality predicate.  The predicate's placeholders are the indexes the
\* call consumed, in order.
C14_ValuesPerOperator ==
  (pc = "filter" /\ condition.calls > 0) =>
    LET n == ValueCount(condition.filter_)
        before == Len(condition.params_before)
        field_name == <<"vehicles", ".", "vehicle_label">>
        added == SubSeq(condition.params, before + 1, Len(condition.params))
    IN
    /\ Len(condition.params) = before + n
    /\ SubSeq(condition.params, 1, before) = condition.params_before
    /\ condition.param_idx = condition.param_idx_before + n
    /\ PlaceholdersOfPredicate(condition.text, condition.param_idx) =
         [k \in 1..n |-> Placeholder(condition.param_idx_before + k - 1)]
    /\ condition.filter_.operator = "between" =>
         added = <<condition.filter_.value, condition.filter_.value2>>
    /\ (condition.filter_.operator \in {"in", "not_in"} /\ IsList(condition.filter_.value)) =>
         added = [k \in 1..n |-> StrV(condition.filter_.value.items[k])]
    /\ (condition.filter_.operator = "in" /\ ~IsList(condition.filter_.value)) =>
         /\ condition.text = field_name \o <<"=", Placeholder(condition.param_idx_before)>>
         /\ added = <<condition.filter_.value>>
    /\ (condition.filter_.operator = "not_in" /\ ~IsList(condition.filter_.value)) =>
         /\ condition.text = field_name \o <<"!=", Placeholder(condition.param_idx_before)>>
         /\ added = <<condition.filter_.value>>

\* C14 witness: an IN list of two elements compiled by a caller that already
\* holds parameters.
C14_Witness ==
  /\ pc = "filter"
  /\ condition.calls = 2
  /\ condition.params_before # <<>>
  /\ condition.filter_.operator = "in"
  /\ condition.filter_.value = ListV(<<"a", "b">>)
  /\ Len(condition.params) = Len(condition.params_before) + 2

\* the columns of the GROUP BY clause of the text, as <<table, column>> pairs
GroupByColumns(sql) ==
  IF Occurrences(sql, "GROUP BY") = 0 THEN {}
  ELSE LET first == FirstPos(sql, {"GROUP BY"})
           last == CHOOSE i \in DOMAIN sql :
                     /\ i > first
                     /\ sql[i] \in {"ORDER BY", "LIMIT"}
                     /\ \A j \in (first + 1)..(i - 1) : sql[j] \notin {"ORDER BY", "LIMIT"}
       IN {<<sql[i - 1], sql[i + 1]>> : i \in {j \in first..last : sql[j] = "."}}

\* the <<table, column>> pair of a reference
ColumnOf(reg, ref) ==
  <<TableAlias(reg, ref.entity_id),
    find_field(get_entity(reg, ref.entity_id), ref.field_id).name>>

\* the reference is listed, by (entity, field) identity, in refs
ListedIn(ref, refs) ==
  \E i \in DOMAIN refs :
    refs[i].entity_id = ref.entity_id /\ refs[i].field_id = ref.field_id

\* C15: GROUP BY is never derived from the selection: in an accepted build
\* its columns are exactly the non-aggregated selected fields that are
\* listed in the explicit group-by list, and only when some selected field
\* carries an aggregation; an aggregated selection without a group-by list
\* has no GROUP BY clause, and a group-by entry that is not a non-aggregated
\* selected field is not in GROUP BY.
C15_GroupByExplicitOnly ==
  Accepted =>
    LET columns == GroupByColumns(result.sql)
        selected == Range(config.selected_fields)
        plain == {f \in selected : f.aggregation = None /\ Declared(registry, f)}
    IN
    /\ columns =
         {ColumnOf(registry, f) :
            f \in {g \in plain : /\ \E a \in selected : a.aggregation # None
                                 /\ ListedIn(g, config.group_by)}}
    /\ config.group_by = <<>> => Occurrences(result.sql, "GROUP BY") = 0
    /\ (\A a \in selected : a.aggregation = None) => Occurrences(result.sql, "GROUP BY") = 0
    /\ \A g \in Range(config.group_by) :
         (Declared(registry, g) /\ ~ListedIn(g, config.selected_fields))
           => ColumnOf(registry, g) \notin columns

\* C15 witness: an aggregated selection with two non-aggregated fields, one
\* of them in the group-by list beside an entry that is not selected: GROUP
\* BY holds the one listed field only.
C15_Witness ==
  /\ Accepted
  /\ HasAggregation(config)
  /\ GroupByColumns(result.sql) = {<<"vehicles", "vehicle_label">>}
  /\ \E f \in Range(config.selected_fields) :
       /\ f.aggregation = None
       /\ Declared(registry, f)
       /\ ~ListedIn(f, config.group_by)
  /\ \E g \in Range(config.group_by) :
       Declared(registry, g) /\ ~ListedIn(g, config.selected_fields)

(***************************************************************************)
(* Properties of the Time Range Resolver                                   *)
(***************************************************************************)
\* a call of the resolver for a relative time range has returned
ResolvedRelative ==
  /\ pc = "time"
  /\ time_bounds.returned
  /\ time_bounds.time_range.type = "relative"

RecognizedUnits == {"hours", "days", "weeks", "months", "years"}

\* the length of a recognized unit, in hours
UnitLength(unit) ==
  CASE unit = "hours" -> 1
    [] unit = "days" -> 24
    [] unit = "weeks" -> 168
    [] unit = "months" -> 720
    [] unit = "years" -> 8760

\* the call returned the pair (utcnow - delta, utcnow), delta in hours
ReturnedDelta(delta) ==
  /\ time_bounds.bounds.ok
  /\ time_bounds.bounds.start = Bound(time_bounds.utcnow - delta)
  /\ time_bounds.bounds.end = Bound(time_bounds.utcnow)

\* C16: for a relative time range with a recognized unit the resolver
\* returns (now - delta, now) with delta = count x unitLength: an hour, a
\* day and a week exact, a month 30 days, a year 365 days.
C16_RelativeDelta ==
  (ResolvedRelative /\ time_bounds.time_range.relative_unit \in RecognizedUnits)
    => ReturnedDelta(time_bounds.time_range.relative_value
                       * UnitLength(time_bounds.time_range.relative_unit))

\* C16 witness: count 2 with unit months has given a 60-day delta
C16_Witness ==
  /\ ResolvedRelative
  /\ time_bounds.time_range.relative_value = 2
  /\ time_bounds.time_range.relative_unit = "months"
  /\ time_bounds.bounds.end.t - time_bounds.bounds.start.t = 60 * 24
  /\ time_bounds.bounds.end.t = now

\* the unit of the request is absent: None or the empty string
AbsentUnit == time_bounds.time_range.relative_unit \in {None, ""}

\* C17 as stated: for a relative time range whose unit is unrecognized or
\* absent the resolver returns (now - 7 days, now) regardless of the count.
C17_SevenDaysUnlessRecognized ==
  (ResolvedRelative /\ time_bounds.time_range.relative_unit \notin RecognizedUnits)
    => ReturnedDelta(168)

\* C17, amended: a unit that is present and unrecognized gives
\* (now - 7 days, now) regardless of the count; an absent unit is read as
\* days and gives (now - count days, now).
C17_SevenDaysForUnknownUnit ==
  ResolvedRelative =>
    /\ (~AbsentUnit /\ time_bounds.time_range.relative_unit \notin RecognizedUnits)
          => ReturnedDelta(168)
    /\ AbsentUnit => ReturnedDelta(time_bounds.time_range.relative_value * 24)

\* C17 witness: count 30 with the unit fortnights has given a 7-day delta,
\* after the clock advanced
C17_Witness ==
  /\ ResolvedRelative
  /\ time_bounds.time_range.relative_value = 30
  /\ time_bounds.time_range.relative_unit = "fortnights"
  /\ time_bounds.bounds.start.t = time_bounds.utcnow - 7 * 24
  /\ time_bounds.utcnow > NowStart

(***************************************************************************)
(* Properties of the time-range predicates of WHERE                        *)
(***************************************************************************)
\* the terms of the WHERE clause of a query text, <<>> when it has none
WhereTerms(sql) ==
  IF Occurrences(sql, "WHERE") = 0 THEN <<>>
  ELSE SubSeq(sql, FirstPos(sql, {"WHERE"}) + 1,
              FirstPos(sql, {"GROUP BY", "ORDER BY", "LIMIT"}) - 1)

\* the entity the time-scope field is looked up in
ScopeEntityId(cfg) ==
  IF cfg.time_field_entity \in {None, ""} THEN cfg.primary_entity
  ELSE cfg.time_field_entity

\* a time range and a time-scope field are both present and the field resolves
TimeScoped(reg, cfg) ==
  /\ cfg.time_range # NoTimeRange
  /\ cfg.time_field \notin {None, ""}
  /\ Declared(reg, [entity_id |-> ScopeEntityId(cfg), field_id |-> cfg.time_field])

\* the operators of the bounds a time range has: both for a relative range,
\* one for each date given for an absolute one
PresentBounds(time_range) ==
  IF time_range.type = "absolute"
  THEN (IF time_range.start_date \in {None, ""} THEN <<>> ELSE <<">=">>)
       \o (IF time_range.end_date \in {None, ""} THEN <<>> ELSE <<"<=">>)
  ELSE <<">=", "<=">>

\* the bound predicates expected in WHERE, the first with placeholder $k
ExpectedBoundPredicates(reg, cfg, k) ==
  IF ~TimeScoped(reg, cfg) THEN <<>>
  ELSE LET entity == get_entity(reg, ScopeEntityId(cfg))
           column == find_field(entity, cfg.time_field).name
           ops == PresentBounds(cfg.time_range)
       IN [i \in DOMAIN ops |->
             <<entity.table_name, ".", column, ops[i], "$" \o ToString(k + i - 1)>>]

\* the number of parameters the applied filters bind
FilterParameterCount(reg, cfg) ==
  LET applied == AppliedFilters(reg, cfg) IN
  Len(Flatten([i \in DOMAIN applied |-> FilterValues(applied[i])]))

\* C18: when a time range and a time-scope field are both present and the
\* field resolves, WHERE ends, after all filter predicates, with one
\* predicate '>= $k' for a present start bound and one '<= $k' for a
\* present end bound against the scoped (entity, field), the scope entity
\* being the primary entity when unspecified, with exactly one parameter
\* appended per predicate; a relative range gives two, an absolute range
\* with one bound absent gives one, a configuration lacking the time range
\* or the time-scope field gives none.
C18_TimeRangePredicates ==
  Accepted =>
    LET where == WhereTerms(result.sql)
        filtered == FilterParameterCount(registry, config)
        expected == ExpectedBoundPredicates(registry, config, filtered + 1)
        tail == JoinTokens(expected, "AND")
        rest == Len(where) - Len(tail)
    IN
    /\ Len(result.params) = filtered + Len(expected)
    /\ PlaceholdersOf(where) = [k \in 1..Len(result.params) |-> "$" \o ToString(k)]
    /\ rest >= 0
    /\ SubSeq(where, rest + 1, Len(where)) = tail
    /\ rest = 0 <=> AppliedFilters(registry, config) = <<>>
    /\ (rest > 0 /\ expected # <<>>) => where[rest] = "AND"
    /\ \E utcnow \in BuildTimes :
         SubSeq(result.params, filtered + 1, Len(result.params))
           = BoundValues(registry, config, utcnow)
    /\ (TimeScoped(registry, config) /\ config.time_range.type # "absolute")
          => Len(expected) = 2
    /\ ~TimeScoped(registry, config) => Len(expected) = 0

\* C18 witness: a build with an applied filter and a relative range on a
\* time-scope field without entity: two bound predicates against the
\* primary entity's table end WHERE, two parameters follow the filter's
C18_Witness ==
  /\ Accepted
  /\ AppliedFilters(registry, config) # <<>>
  /\ config.time_range.type = "relative"
  /\ config.time_field_entity = None
  /\ TimeScoped(registry, config)
  /\ LET where == WhereTerms(result.sql)
         table == get_entity(registry, config.primary_entity).table_name
         k == Len(result.params)
     IN /\ k >= 3
        /\ Len(where) > 11
        /\ SubSeq(where, Len(where) - 10, Len(where)) =
             <<table, ".", config.time_field, ">=", "$" \o ToString(k - 1), "AND",
               table, ".", config.time_field, "<=", "$" \o ToString(k)>>

\* C18 witness of the open bound: an absolute range with the end date
\* absent has given one predicate and one parameter
C18_WitnessOpenBound ==
  /\ Accepted
  /\ TimeScoped(registry, config)
  /\ config.time_range.type = "absolute"
  /\ PresentBounds(config.time_range) = <<">=">>
  /\ Len(result.params) = FilterParameterCount(registry, config) + 1

(***************************************************************************)
(* Properties of the preview (generate_preview_sql)                        *)
(***************************************************************************)
Previewed == pc = "previewed" /\ preview_sql.ok

\* the literal of a parameter: a str in single quotes, any other as str()
Literal(p) ==
  CASE p.kind = "str" -> <<"'">> \o StrChars(p.items[1]) \o <<"'">>
    [] p.kind = "none" -> <<"None">>
    [] OTHER -> <<PyStr(p)>>

\* the query text with the literal of parameter k in the place of each $k
InPlace(sql, params) ==
  LET Index(token) ==
        IF \E k \in DOMAIN params : token = "$" \o ToString(k)
        THEN CHOOSE k \in DOMAIN params : token = "$" \o ToString(k)
        ELSE 0
  IN [i \in DOMAIN sql |->
        IF Index(sql[i]) = 0 THEN <<sql[i]>> ELSE Literal(params[Index(sql[i])])]

\* a str parameter that spells a placeholder
SpellsPlaceholder(p) == p.kind = "str" /\ Len(StrChars(p.items[1])) > 1

\* C19: generate_preview_sql returns the text of build_query with every
\* placeholder $k replaced in place by the literal of the parameter at
\* position k-1 (strings in single quotes) and nothing else changed,
\* whatever the number of parameters and whatever their values.
C19_PreviewShowsOwnParameter ==
  Previewed => preview_sql.text = InPlace(result.sql, result.params)

\* C19 within its limits: with at most nine parameters, none of them a
\* string spelling a placeholder, the preview shows each parameter in place
C19_PreviewOfFewPlainParameters ==
  (/\ Previewed
   /\ Len(result.params) <= 9
   /\ \A k \in DOMAIN result.params : ~SpellsPlaceholder(result.params[k]))
    => preview_sql.text = InPlace(result.sql, result.params)

\* a preview of ten plain parameters or more has been returned
C19_TenParametersPreviewed ==
  /\ Previewed
  /\ Len(result.params) >= 10
  /\ \A k \in DOMAIN result.params : ~SpellsPlaceholder(result.params[k])

\* ten plain parameters or more never come out right
C19_TenParametersWrong ==
  C19_TenParametersPreviewed => preview_sql.text # InPlace(result.sql, result.params)

(***************************************************************************)
(* Properties of concurrent calls of build_query                           *)
(***************************************************************************)
\* call c has returned (a result or an error)
Returned(c) == pc = "concurrent" /\ calls[c].pc = "returned"

\* C20: concurrent calls of build_query share no mutable state: in any
\* interleaving each call returns what it returns when run alone (the
\* result of its configuration, the registry and the clock reading it
\* took; the text and the outcome those of any clock reading), and no
\* call modifies the entity registry or the configuration it was given.
C20_CallsIndependent ==
  pc = "concurrent" =>
    /\ registry = ENTITIES
    /\ \A c \in Callers :
         /\ calls[c].cfg = calls[c].given
         /\ calls[c].pc = "returned" =>
              LET alone == build_query(ENTITIES, calls[c].given, calls[c].utcnow)
                  first == build_query(ENTITIES, calls[c].given, NowStart)
              IN /\ calls[c].result = alone
                 /\ calls[c].result.ok = first.ok
                 /\ calls[c].result.sql = first.sql
                 /\ calls[c].result.error = first.error

\* C20 witness: two calls with different configurations overlapped, both
\* returned a query, one of them with the bounds of the advanced clock
C20_Witness ==
  /\ Returned(1) /\ Returned(2)
  /\ calls[1].overlapped /\ calls[2].overlapped
  /\ calls[1].given # calls[2].given
  /\ calls[1].result.ok /\ calls[2].result.ok
  /\ calls[1].result.sql # calls[2].result.sql
  /\ \E c \in Callers :
       /\ calls[c].utcnow > NowStart
       /\ Len(calls[c].result.params) = 3
       /\ calls[c].result = build_query(registry, calls[c].given, now)

(***************************************************************************)
(* Properties of the SELECT list                                           *)
(***************************************************************************)
\* the terms between SELECT and FROM
SelectTerms(sql) == SubSeq(sql, 2, FirstPos(sql, {"FROM"}) - 1)

\* the field reference table.column of a declared (entity, field)
FieldReference(reg, ref) ==
  LET entity == get_entity(reg, ref.entity_id) IN
  <<entity.table_name, ".", find_field(entity, ref.field_id).name>>

\* a field reference wrapped by an aggregation kind
Wrapped(reference, kind) ==
  CASE kind = "count" -> <<"COUNT", "(">> \o reference \o <<")">>
    [] kind = "sum" -> <<"SUM", "(">> \o reference \o <<")">>
    [] kind = "avg" -> <<"AVG", "(">> \o reference \o <<")">>
    [] kind = "min" -> <<"MIN", "(">> \o reference \o <<")">>
    [] kind = "max" -> <<"MAX", "(">> \o reference \o <<")">>
    [] kind = "count_distinct" -> <<"COUNT", "(", "DISTINCT">> \o reference \o <<")">>

\* 'expr AS alias' of one selected field
SelectItem(reg, sel_field) ==
  IF sel_field.aggregation = None
  THEN FieldReference(reg, sel_field)
         \o <<"AS", sel_field.entity_id \o "_" \o sel_field.field_id>>
  ELSE Wrapped(FieldReference(reg, sel_field), sel_field.aggregation)
         \o <<"AS", sel_field.aggregation \o "_" \o sel_field.entity_id
                      \o "_" \o sel_field.field_id>>

\* the selected fields that resolve, in the order of the configuration
ResolvingSelected(reg, cfg) ==
  LET Test(sel_field) == Declared(reg, sel_field) IN
  SelectSeq(cfg.selected_fields, Test)

\* the configuration without its display aliases
Unaliased(cfg) ==
  [cfg EXCEPT !.selected_fields =
     [i \in DOMAIN cfg.selected_fields |-> [cfg.selected_fields[i] EXCEPT !.alias = None]]]

\* C21: each SELECT item is 'expr AS alias': for a field with an
\* aggregation kind expr is the field reference wrapped by that kind
\* (COUNT(DISTINCT ...) for count_distinct) and alias is
\* kind_entityId_fieldId; for a field without aggregation expr is the
\* field reference and alias is entityId_fieldId; the display alias of
\* the configuration never changes the output.
C21_SelectItems ==
  Accepted =>
    LET selected == ResolvingSelected(registry, config) IN
    /\ SelectTerms(result.sql)
         = JoinTokens([i \in DOMAIN selected |-> SelectItem(registry, selected[i])], ",")
    /\ result = build_query(registry, Unaliased(config), now)

\* C21 witness: a COUNT(DISTINCT ...) item and a plain item, both with a
\* display alias, have come out under their generated aliases
C21_Witness ==
  /\ Accepted
  /\ Len(config.selected_fields) = 2
  /\ config.selected_fields[1].aggregation = "count_distinct"
  /\ config.selected_fields[2].aggregation = None
  /\ \A i \in 1..2 : config.selected_fields[i].alias = "Total"
  /\ config.selected_fields[1].entity_id = "vehicles"
  /\ config.selected_fields[2].entity_id = "objects"
  /\ SelectTerms(result.sql) =
       <<"COUNT", "(", "DISTINCT", "vehicles", ".", "max_speed", ")", "AS",
         "count_distinct_vehicles_max_speed", ",",
         "objects", ".", "object_label", "AS", "objects_object_label">>

(***************************************************************************)
(* Properties of the ORDER BY list                                         *)
(***************************************************************************)
\* the terms between ORDER BY and LIMIT, <<>> without ORDER BY
OrderTerms(sql) ==
  IF Occurrences(sql, "ORDER BY") = 0 THEN <<>>
  ELSE SubSeq(sql, FirstPos(sql, {"ORDER BY"}) + 1, FirstPos(sql, {"LIMIT"}) - 1)

\* the number of comma-separated terms of a list
TermCount(terms) == IF terms = <<>> THEN 0 ELSE Occurrences(terms, ",") + 1

\* the direction equals "desc" ignoring case
IsDesc(direction) == direction \in {"desc", "DESC", "Desc", "dEsC"}

\* 'field direction' of one sort spec
SortTerm(reg, sort) ==
  FieldReference(reg, sort) \o <<IF IsDesc(sort.direction) THEN "DESC" ELSE "ASC">>

\* the sort specs that resolve, in the order of the configuration
ResolvingSorts(reg, cfg) ==
  LET Test(sort) == Declared(reg, sort) IN SelectSeq(cfg.sorting, Test)

\* the terms of ORDER BY are those of the resolving sort specs, in order
OrderTermsOfResolving ==
  LET sorts == ResolvingSorts(registry, config) IN
  OrderTerms(result.sql) = JoinTokens([i \in DOMAIN sorts |-> SortTerm(registry, sorts[i])], ",")

\* C22: ORDER BY contains one 'field direction' term per sort spec, in
\* the order of the sort list; the direction is DESC exactly when the
\* spec's direction equals "desc" ignoring case, ASC for every other value.
\* (Violated: a sort spec that does not resolve is dropped, see C5.)
C22_OneTermPerSortSpec ==
  Accepted =>
    /\ TermCount(OrderTerms(result.sql)) = Len(config.sorting)
    /\ OrderTermsOfResolving

\* C22 for the sort specs that resolve: one term each, in order, with
\* the direction as stated
C22_OneTermPerResolvingSortSpec == Accepted => OrderTermsOfResolving

\* a build with two resolving sort specs, a descending one in mixed case
\* and one with an unknown direction word
C22_TwoTermsReached ==
  /\ Accepted
  /\ Len(config.sorting) = 2
  /\ config.sorting[1].direction = "dEsC"
  /\ config.sorting[2].direction = "descending"
  /\ OrderTerms(result.sql) =
       <<"objects", ".", "object_label", "DESC", ",",
         "vehicles", ".", "vehicle_label", "ASC">>

(***************************************************************************)
(* Properties of the paths of the Join Path Resolver                       *)
(***************************************************************************)
PathReturned == pc = "returned"

\* the relationships of entity a that target b, in declared order
RelsTowards(reg, a, b) ==
  LET Test(rel) == rel.target_entity = b IN
  SelectSeq(get_entity(reg, a).relationships, Test)

\* the step a -> b along a relationship a declares
Along(a, rel) ==
  [from_entity |-> a, to_entity |-> rel.target_entity, from_field |-> rel.source_field,
   to_field |-> rel.target_field, join_type |-> rel.join_type]

\* the step a -> b against a relationship b declares towards a
Against(a, b, rel) ==
  [from_entity |-> a, to_entity |-> b, from_field |-> rel.target_field,
   to_field |-> rel.source_field, join_type |-> rel.join_type]

\* the entities reachable from seen without entering avoid
RECURSIVE ReachableAvoiding(_, _, _)
ReachableAvoiding(reg, seen, avoid) ==
  LET more == seen \cup {b \in EntityIds(reg) \ avoid : \E a \in seen : Adjacent(reg, a, b)}
  IN IF more = seen THEN seen ELSE ReachableAvoiding(reg, more, avoid)

\* the first steps the recursion tries from a: the relationships a declares
\* in declared order, then the relationships towards a in registry order
Branches(reg, a) ==
  LET rels == get_entity(reg, a).relationships
      others == [i \in DOMAIN reg |->
                   IF reg[i].id = a THEN <<>>
                   ELSE LET back == RelsTowards(reg, reg[i].id, a) IN
                        [k \in DOMAIN back |-> Against(a, reg[i].id, back[k])]]
  IN [k \in DOMAIN rels |-> Along(a, rels[k])] \o Flatten(others)

\* the branch through the first step leads to b without coming back to a
Succeeds(reg, a, b, first) ==
  /\ first.to_entity \in EntityIds(reg) \ {a}
  /\ b \in ReachableAvoiding(reg, {first.to_entity}, {a})

\* C23: the empty path when from equals to; otherwise the single forward
\* step when the from-entity declares a relationship targeting the
\* to-entity, even if other paths exist; otherwise the single step with
\* the two fields swapped when the to-entity declares a relationship
\* targeting the from-entity; only when neither direct edge exists the
\* recursion, forward relationships in declared order before reverse
\* relationships in registry order, returning the first branch that succeeds.
C23_ResolverPriority ==
  PathReturned =>
    LET a == from_entity_id
        b == to_entity_id
        forward == RelsTowards(registry, a, b)
        reverse == RelsTowards(registry, b, a)
        branches == Branches(registry, a)
        good == {k \in DOMAIN branches : Succeeds(registry, a, b, branches[k])}
    IN
    IF a = b THEN join_path.found /\ join_path.path = <<>>
    ELSE IF forward # <<>>
         THEN join_path.found /\ join_path.path = <<Along(a, forward[1])>>
    ELSE IF reverse # <<>>
         THEN join_path.found /\ join_path.path = <<Against(a, b, reverse[1])>>
    ELSE IF good = {} THEN ~join_path.found
    ELSE /\ join_path.found
         /\ Len(join_path.path) >= 2
         /\ join_path.path[1] = branches[CHOOSE k \in good : \A j \in good : k <= j]

\* C23 witness: both entities declare a relationship towards the other and
\* a two-step path exists besides: the forward step has been returned
C23_Witness ==
  /\ PathReturned
  /\ from_entity_id # to_entity_id
  /\ RelsTowards(registry, from_entity_id, to_entity_id) # <<>>
  /\ RelsTowards(registry, to_entity_id, from_entity_id) # <<>>
  /\ \E c \in EntityIds(registry) \ {from_entity_id, to_entity_id} :
       Adjacent(registry, from_entity_id, c) /\ Adjacent(registry, c, to_entity_id)
  /\ join_path.path = <<Along(from_entity_id,
                              RelsTowards(registry, from_entity_id, to_entity_id)[1])>>

\* C23 witness of the recursion: the first branch failed and a later one,
\* a reverse one, has been returned
C23_WitnessLaterBranch ==
  /\ PathReturned
  /\ join_path.found
  /\ Len(join_path.path) >= 2
  /\ LET branches == Branches(registry, from_entity_id) IN
     /\ Len(branches) >= 2
     /\ ~Succeeds(registry, from_entity_id, to_entity_id, branches[1])
     /\ join_path.path[1] \in Range(branches)
     /\ join_path.path[1].from_field = "pk_" \o from_entity_id

\* the entities within n steps of a in the relationship graph
RECURSIVE Within(_, _, _)
Within(reg, a, n) ==
  IF n = 0 THEN {a}
  ELSE LET near == Within(reg, a, n - 1) IN
       near \cup {b \in EntityIds(reg) : \E c \in near : Adjacent(reg, c, b)}

\* the least number of steps from a to b, for connected a and b
Distance(reg, a, b) ==
  CHOOSE n \in 0..Len(reg) :
    b \in Within(reg, a, n) /\ \A m \in 0..(n - 1) : b \notin Within(reg, a, m)

\* C24: for every registry and every pair of connected entities the path
\* _find_join_path returns has the minimum number of join steps among all
\* paths connecting the two entities.
\* (Violated: the search is depth-first and returns the first path found.)
C24_ShortestPath ==
  (PathReturned /\ join_path.found)
    => Len(join_path.path) = Distance(registry, from_entity_id, to_entity_id)

\* C24 within its limits: a path of one step is returned whenever the two
\* entities are adjacent, and no returned path is shorter than the distance
C24_DirectEdgeIsShortest ==
  (PathReturned /\ join_path.found)
    => /\ Len(join_path.path) >= Distance(registry, from_entity_id, to_entity_id)
       /\ Distance(registry, from_entity_id, to_entity_id) <= 1
            => Len(join_path.path) = Distance(registry, from_entity_id, to_entity_id)

\* a path of three steps has been returned for two entities two steps apart
C24_LongerPathReturned ==
  /\ PathReturned
  /\ join_path.found
  /\ Len(join_path.path) = 3
  /\ Distance(registry, from_entity_id, to_entity_id) = 2

\* the entities a path passes, its source first
EntitiesOn(path, source) ==
  <<source>> \o [i \in DOMAIN path |-> path[i].to_entity]

\* step corresponds to a declared relationship, walked along or against
IsDeclaredStep(reg, step) ==
  \/ \E k \in DOMAIN RelsTowards(reg, step.from_entity, step.to_entity) :
       step = Along(step.from_entity, RelsTowards(reg, step.from_entity, step.to_entity)[k])
  \/ \E k \in DOMAIN RelsTowards(reg, step.to_entity, step.from_entity) :
       step = Against(step.from_entity, step.to_entity,
                      RelsTowards(reg, step.to_entity, step.from_entity)[k])

\* C25: every path _find_join_path returns is well formed: the first step
\* starts at the source, the last step ends at the target, each step's
\* to-entity is the next step's from-entity, no entity occurs twice, and
\* every step corresponds to a declared relationship: declared on
\* fromEntity towards toEntity with its fields as declared, or declared on
\* toEntity towards fromEntity with the fields swapped, the join kind kept.
C25_PathWellFormed ==
  (PathReturned /\ join_path.found) =>
    LET path == join_path.path
        entities == EntitiesOn(path, from_entity_id)
    IN
    /\ entities[Len(entities)] = to_entity_id
    /\ \A i \in DOMAIN path : path[i].from_entity = entities[i]
    /\ \A i \in DOMAIN entities : \A j \in DOMAIN entities :
         i # j => entities[i] # entities[j]
    /\ \A i \in DOMAIN path :
         /\ {path[i].from_entity, path[i].to_entity} \subseteq EntityIds(registry)
         /\ IsDeclaredStep(registry, path[i])

\* C25 witness: a path of three steps, walked along a relationship and
\* against another, through a registry that has a cycle
C25_Witness ==
  /\ PathReturned
  /\ join_path.found
  /\ Len(join_path.path) = 3
  /\ \E i \in 1..3 : join_path.path[i].from_field = "pk_" \o join_path.path[i].from_entity
  /\ \E i \in 1..3 : join_path.path[i].to_field = "pk_" \o join_path.path[i].to_entity
  /\ \E a \in EntityIds(registry), b \in EntityIds(registry) :
       a # b /\ RelsTowards(registry, a, b) # <<>> /\ RelsTowards(registry, b, a) # <<>>

(***************************************************************************)
(* Properties of the JOIN clauses of shared paths                          *)
(***************************************************************************)
\* the non-primary entities build_query resolves a join path for: those of
\* the selected fields, filters and sort specs that the registry holds
PathTargets(reg, cfg) ==
  {ref.entity_id : ref \in {r \in References(cfg) : get_entity(reg, r.entity_id) # NoEntity}}
    \ {cfg.primary_entity}

\* the path resolved for entity e
ResolvedPath(reg, cfg, e) == _find_join_path(reg, cfg.primary_entity, e, {}).path

\* the entities on the union of the resolved paths
OnResolvedPaths(reg, cfg) ==
  UNION {{ResolvedPath(reg, cfg, e)[i].to_entity : i \in DOMAIN ResolvedPath(reg, cfg, e)} :
           e \in PathTargets(reg, cfg)}

\* C26: build_query joins every entity at most once: a step whose target
\* is already joined emits no second JOIN clause, so the number of JOIN
\* clauses equals the number of distinct non-primary entities on the
\* union of the resolved paths, and the primary entity is never the
\* target of a JOIN.
C26_EachEntityJoinedOnce ==
  Accepted =>
    LET joins == JoinPositions(result.sql)
        on_paths == OnResolvedPaths(registry, config)
    IN
    /\ Cardinality(joins) = Cardinality(on_paths \ {config.primary_entity})
    /\ {JoinedTable(result.sql, i) : i \in joins}
         = {get_entity(registry, e).table_name : e \in on_paths}
    /\ \A i \in joins : \A j \in joins :
         i # j => JoinedTable(result.sql, i) # JoinedTable(result.sql, j)
    /\ \A i \in joins : JoinedTable(result.sql, i) # FromTable(result.sql)
    /\ config.primary_entity \notin on_paths

\* C26 witness: two required entities whose paths share their first step;
\* the steps of the two paths outnumber the JOIN clauses
C26_Witness ==
  /\ Accepted
  /\ \E a \in PathTargets(registry, config), b \in PathTargets(registry, config) :
       /\ a # b
       /\ Len(ResolvedPath(registry, config, a)) >= 2
       /\ Len(ResolvedPath(registry, config, b)) >= 1
       /\ ResolvedPath(registry, config, a)[1] = ResolvedPath(registry, config, b)[1]
       /\ JoinCount(result.sql)
            < Len(ResolvedPath(registry, config, a)) + Len(ResolvedPath(registry, config, b))

(***************************************************************************)
(* Termination of the Join Path Resolver                                   *)
(***************************************************************************)
\* the ids a call of _find_join_path can meet: the registry's, the targets
\* its relationships name, and the id the call starts from
MentionedIds ==
  EntityIds(registry) \cup {from_entity_id}
  \cup UNION {{registry[i].relationships[k].target_entity :
                 k \in 1..Len(registry[i].relationships)} : i \in 1..Len(registry)}

\* what a frame holds as visited once line 231 has run
VisitedOf(fr) == IF fr.loop = "enter" THEN fr.visited ELSE fr.visited \cup {fr.from_id}

\* the callee was not visited by its caller, and holds all its caller holds
GrowsAt(i) ==
  LET caller == stack.frames[i]
      callee == stack.frames[i + 1]
  IN /\ caller.loop # "enter"
     /\ callee.from_id \notin caller.visited
     /\ caller.visited \subseteq callee.visited
     /\ callee.loop # "enter" =>
          /\ caller.visited # callee.visited
          /\ Cardinality(callee.visited) > Cardinality(caller.visited)

VisitedStrictlyGrows ==
  /\ \A i \in 1..(Len(stack.frames) - 1) : GrowsAt(i)
  /\ \A i \in 1..Len(stack.frames) : stack.frames[i].visited \subseteq MentionedIds
  /\ Len(stack.frames) <= Cardinality(MentionedIds) + 1
  /\ Len(stack.frames) < MaxDepth

\* the stepwise call returns what the recursive definition returns
ReturnsResolverValue ==
  pc = "returned" =>
    join_path = _find_join_path(registry, from_entity_id, to_entity_id, {})

\* C27: _find_join_path terminates for every registry and every pair of
\* entity ids, cyclic registries and relationships towards an absent
\* entity included: along every branch of the recursion the visited set
\* strictly grows, and every call returns
C27_Terminates ==
  /\ [](pc \in {"resolving", "returned"} => VisitedStrictlyGrows)
  /\ <>(pc = "returned")

\* C27 witness: in the registry where objects and vehicles declare each
\* other and devices targets an absent entity, a call three frames deep has
\* passed the cycle
C27_Witness ==
  /\ registry = CyclicRegistry
  /\ pc = "resolving"
  /\ Len(stack.frames) >= 3
  /\ stack.frames[1].from_id = "objects"
  /\ stack.frames[2].from_id = "vehicles"
  /\ stack.frames[3].from_id = "devices"
  /\ stack.frames[3].loop # "enter"
  /\ "objects" \in stack.frames[3].visited

\* C27 witness: such a call has returned without a path
C27_WitnessReturned ==
  /\ registry = CyclicRegistry
  /\ pc = "returned"
  /\ from_entity_id = "objects"
  /\ to_entity_id = "tags"
  /\ ~join_path.found

(***************************************************************************)
(* Properties of the credentials the API and the dashboard select          *)
(***************************************************************************)
\* the emails whose file exists and has not expired
ValidEmails == {e \in Emails : cred_files[e].exists /\ now <= cred_files[e].expires_at}

\* the position of the latest store_credentials call for an email
LastStoreOf(email) ==
  CHOOSE i \in DOMAIN ledger.order :
    /\ ledger.order[i] = email
    /\ \A j \in DOMAIN ledger.order : ledger.order[j] = email => j <= i

\* the unexpired record that was stored last
MostRecentValid ==
  cred_files[CHOOSE e \in ValidEmails :
               \A o \in ValidEmails : LastStoreOf(o) <= LastStoreOf(e)]

Selects(op) == response.op = op /\ response.at = now

SelectsMostRecentValid ==
  IF ValidEmails = {} THEN ~response.found
  ELSE response.found /\ response.cred = MostRecentValid

\* C28: after any sequence of logins, _get_db_connection and the
\* dashboard's get_credentials select the unexpired credential record that
\* was stored last
C28_MostRecentValidSelected ==
  (Selects("connect") \/ Selects("dashboard")) => SelectsMostRecentValid

\* _get_db_connection alone selects the record stored last
C28_ConnectionMostRecent == Selects("connect") => SelectsMostRecentValid

\* the dashboard alone selects the record stored last
C28_DashboardMostRecent == Selects("dashboard") => SelectsMostRecentValid

\* what both do select: an unexpired record of the directory, when there is one
C28_SelectsSomeValid ==
  (Selects("connect") \/ Selects("dashboard")) =>
    IF ValidEmails = {} THEN ~response.found
    ELSE response.found /\ \E e \in ValidEmails : response.cred = cred_files[e]

(***************************************************************************)
(* Properties of the credential lifecycle in the auth server               *)
(***************************************************************************)
\* a record get_credentials(email) returned is the one the latest login for
\* that email stored, no logout for the email followed that login, and the
\* record had not expired at the lookup
LookupSound ==
  (response.op = "lookup" /\ response.found) =>
    /\ response.cred.email = response.email
    /\ ledger.of[response.email].stored = response.cred
    /\ ~ledger.of[response.email].logged_out
    /\ response.at <= response.cred.expires_at

\* this step is a get_credentials(email) call
LookedUp(email) ==
  /\ response'.op = "lookup"
  /\ response'.email = email
  /\ now' = now
  /\ <<response, cred_files>>' # <<response, cred_files>>

\* this step is a login for email
LoggedIn(email) ==
  /\ ledger'.logins = ledger.logins + 1
  /\ response'.op = "login"
  /\ response'.email = email

Unexpired(email) == cred_files[email].exists /\ now <= cred_files[email].expires_at

\* a lookup deletes the expired record it meets
ExpiredDeletedOnLookup ==
  \A email \in Emails :
    (LookedUp(email) /\ cred_files[email].exists /\ now > cred_files[email].expires_at) =>
      /\ ~cred_files'[email].exists
      /\ ~response'.found

\* a login for an email with an unexpired record keeps the record's user id
UserIdReused ==
  \A email \in Emails :
    (LoggedIn(email) /\ Unexpired(email)) =>
      /\ cred_files'[email].user_id = cred_files[email].user_id
      /\ response'.cred.user_id = cred_files[email].user_id

\* C30: after any sequence of logins, logouts and lookups,
\* get_credentials(email) returns a record only if a login for that email
\* stored it, it has not expired and no logout for that email followed; an
\* expired record is deleted on lookup; a login for an email whose
\* unexpired record exists reuses that record's user id
C30_CredentialLifecycle ==
  /\ [](pc = "auth" => LookupSound)
  /\ [][ExpiredDeletedOnLookup /\ UserIdReused]_vars

\* C30 witness: after two logins for one email, typed differently, the
\* lookup returns the second record, which carries the first user id
C30_Witness ==
  /\ pc = "auth"
  /\ response.op = "lookup"
  /\ response.found
  /\ ledger.order = <<"ann@fleet.io", "ann@fleet.io">>
  /\ response.cred.user_id = 1
  /\ response.cred.created_at > NowStart

\* C30 witness: a lookup after a logout finds nothing although the record
\* the login stored would still be unexpired
C30_WitnessLoggedOut ==
  /\ pc = "auth"
  /\ response.op = "lookup"
  /\ ~response.found
  /\ response.email \in Emails
  /\ ledger.of[response.email].logged_out
  /\ ledger.of[response.email].stored.exists
  /\ response.at <= ledger.of[response.email].stored.expires_at

\* C30 witness: a lookup met an expired record and deleted it
C30_WitnessExpired ==
  /\ pc = "auth"
  /\ response.op = "lookup"
  /\ ~response.found
  /\ response.email \in Emails
  /\ ~ledger.of[response.email].logged_out
  /\ ledger.of[response.email].stored.exists
  /\ response.at > ledger.of[response.email].stored.expires_at
  /\ ~cred_files[response.email].exists

(***************************************************************************)
(* Properties of the rate limiter                                          *)
(***************************************************************************)
\* how many of a client's admitted requests have a timestamp in
\* [start, start + RATE_LIMIT_WINDOW)
AdmittedInWindow(client, start) ==
  Cardinality({i \in DOMAIN ledger.admitted[client] :
                 /\ start <= ledger.admitted[client][i]
                 /\ ledger.admitted[client][i] < start + RATE_LIMIT_WINDOW})

AtMostLimitPerWindow ==
  \A client \in ClientMenu : \A start \in (NowStart - RATE_LIMIT_WINDOW)..now :
    AdmittedInWindow(client, start) <= RATE_LIMIT_REQUESTS

\* this step is a check_rate_limit call for client
Checked(client) ==
  /\ ledger'.requests = ledger.requests + 1
  /\ response'.client = client
  /\ IsApiPath(response'.path)

\* the admitted requests of a client that are inside the window at time
RecentlyAdmitted(client, time) ==
  Cardinality({i \in DOMAIN ledger.admitted[client] :
                 ledger.admitted[client][i] > time - RATE_LIMIT_WINDOW})

\* the decision depends on the client's admitted requests alone, and a
\* rejected request leaves no timestamp
RejectedNotRecorded ==
  \A client \in ClientMenu :
    Checked(client) =>
      /\ response'.allowed <=> RecentlyAdmitted(client, now) < RATE_LIMIT_REQUESTS
      /\ ~response'.allowed =>
           /\ rate_limit_store'[client] =
                Pruned(rate_limit_store[client], now - RATE_LIMIT_WINDOW)
           /\ ledger'.admitted = ledger.admitted

\* a check for one client leaves what the store holds for the others
ClientsIsolated ==
  \A client \in ClientMenu :
    Checked(client) =>
      \A other \in ClientMenu \ {client} :
        /\ rate_limit_store'[other] = rate_limit_store[other]
        /\ ledger'.admitted[other] = ledger.admitted[other]

\* C29: for every client address and after any sequence of requests,
\* check_rate_limit admits at most RATE_LIMIT_REQUESTS requests with
\* timestamps inside any window of RATE_LIMIT_WINDOW seconds; a rejected
\* request is not recorded and does not postpone the next admission; the
\* requests of one client never change the decision for another
C29_RateLimit ==
  /\ [](pc = "rate" => AtMostLimitPerWindow)
  /\ [][RejectedNotRecorded /\ ClientsIsolated]_vars

\* C29 witness: a client with RATE_LIMIT_REQUESTS admitted requests in the
\* window is rejected while the other client has been admitted
C29_Witness ==
  /\ pc = "rate"
  /\ response.client = "10.0.0.1"
  /\ ~response.allowed
  /\ RecentlyAdmitted("10.0.0.1", now) = RATE_LIMIT_REQUESTS
  /\ ledger.admitted["10.0.0.2"] # <<>>

\* C29 witness: after a rejection the client is admitted again once its
\* oldest admitted request has left the window
C29_WitnessAdmittedAgain ==
  /\ pc = "rate"
  /\ response.client = "10.0.0.1"
  /\ response.allowed
  /\ IsApiPath(response.path)
  /\ Len(ledger.admitted["10.0.0.1"]) = RATE_LIMIT_REQUESTS + 1
  /\ ledger.admitted["10.0.0.2"] = <<>>
  /\ ledger.requests > RATE_LIMIT_REQUESTS + 1
  /\ response.at = ledger.admitted["10.0.0.1"][1] + RATE_LIMIT_WINDOW

====
